---- MODULE Spec2Model ----
(***************************************************************************)
(* State-machine model of the RT network stack (rtnet_stack.h and the     *)
(* host build of rtnet_ipv6.c).  The process-wide context g_RTNET_Ctx is   *)
(* the state; every public RTNET_* operation is one atomic action.  The    *)
(* millisecond clock behind RTNET_GetTimeMs is an environment variable     *)
(* advanced by Tick.                                                       *)
(***************************************************************************)
EXTENDS Integers, Sequences, FiniteSets, TLC

(* ------------------------------------------------------------------ *)
(* Configuration (rtnet_stack.h)                                       *)
(* ------------------------------------------------------------------ *)
RTNET_MAX_RX_BUFFERS == 8
RTNET_MAX_TX_BUFFERS == 8
RTNET_MAX_TCP_CONNECTIONS == 4
RTNET_MAX_ROUTING_ENTRIES == 32
RTNET_MAX_NEIGHBOR_CACHE == 16
RTNET_MAX_MDNS_CACHE == 8
RTNET_MTU_SIZE == 1500
RTNET_TCP_TIMEOUT_MS == 5000
RTNET_IPV6_ADDR_LEN == 16

RTNET_QOS_CRITICAL == 0
RTNET_QOS_NORMAL == 2

(* RTNET_TCPState_t: the enumerators the host build uses *)
RTNET_TCP_CLOSED == 0
RTNET_TCP_SYN_SENT == 2
RTNET_TCP_ESTABLISHED == 4
RTNET_TCP_FIN_WAIT == 5
RTNET_TCP_CLOSE_WAIT == 6

(* RTNET_Error_t *)
RTNET_OK == 0
RTNET_ERR_INVALID_PARAM == -1
RTNET_ERR_NO_BUFFER == -2
RTNET_ERR_NO_ROUTE == -3
RTNET_ERR_CHECKSUM == -4
RTNET_ERR_TIMEOUT == -5
RTNET_ERR_CONNECTION == -6
RTNET_ERR_OVERFLOW == -7

(* Aging horizons and first ephemeral port, literals of rtnet_ipv6.c *)
NEIGHBOR_AGE_MS == 30000
ROUTE_AGE_MS == 300000
EPHEMERAL_BASE == 49152
UINT16_MAX == 65535

(* ------------------------------------------------------------------ *)
(* Bounds of the exploration                                           *)
(* ------------------------------------------------------------------ *)
(* calls (and clock ticks) explored from an initial state *)
MaxSteps == 3
(* tx_dropped values explored by the retry specification *)
MaxDropped == 3

(* ------------------------------------------------------------------ *)
(* uint32_t values as two 16-bit limbs <<hi, lo>>: the clock, every   *)
(* time stamp and every statistics counter keep their 32-bit width.    *)
(* ------------------------------------------------------------------ *)
U32Zero == <<0, 0>>

(* the uint32_t value n, for 0 <= n < 2^31 *)
U32(n) == <<n \div 65536, n % 65536>>

(* 0xFFFFFFFF *)
U32Max == <<65535, 65535>>

U32Add(a, d) ==
    LET s == a[2] + d
    IN  <<(a[1] + (s \div 65536)) % 65536, s % 65536>>

(* a - b modulo 2^32 *)
U32Sub(a, b) ==
    LET dl == a[2] - b[2]
        borrow == IF dl < 0 THEN 1 ELSE 0
    IN  <<(a[1] - b[1] - borrow) % 65536, dl % 65536>>

(* a < b as unsigned 32-bit values *)
U32Lt(a, b) == a[1] < b[1] \/ (a[1] = b[1] /\ a[2] < b[2])

(* x > c for a constant c < 2^31 *)
U32Gt(x, c) == x[1] >= 32768 \/ (x[1] * 65536 + x[2]) > c

(* ------------------------------------------------------------------ *)
(* Pointers and addresses.  NULL is the absent pointer.  An address    *)
(* value is written by its name; Bytes gives its 16 bytes in network   *)
(* order (6 for a MAC address), and distinct names have distinct bytes.*)
(* ------------------------------------------------------------------ *)
NULL == "NULL"

(* the all-zero address, also the unspecified address :: *)
ZeroAddr == "::"
ZeroMac == "00:00:00:00:00:00"

(* fe80::/10 prefix built by RTNET_Initialize *)
LinkLocalPrefix == "fe80::"

(* test vectors of rtnet_test_suite.c *)
TEST_ADDR_LOCAL == "fe80::200:5eff:fe00:5300"
TEST_ADDR_REMOTE == "2001:db8::1"
TEST_MAC_LOCAL == "00:11:22:33:44:55"
TEST_MAC_REMOTE == "aa:bb:cc:dd:ee:ff"
(* gateway fe80::1 of test_route_add_valid, also used as an on-link peer *)
TEST_GATEWAY == "fe80::1"
(* 2001:db8:: network of test_route_add_valid *)
TEST_NET == "2001:db8::"
(* an address no route of the model covers unless ::/0 is added *)
TEST_ADDR_OTHER == "2002::9"

Bytes(a) ==
    CASE a = ZeroAddr -> <<0,0,0,0, 0,0,0,0, 0,0,0,0, 0,0,0,0>>
      [] a = LinkLocalPrefix -> <<254,128,0,0, 0,0,0,0, 0,0,0,0, 0,0,0,0>>
      [] a = TEST_ADDR_LOCAL -> <<254,128,0,0, 0,0,0,0, 2,0,94,255, 254,0,83,0>>
      [] a = TEST_ADDR_REMOTE -> <<32,1,13,184, 0,0,0,0, 0,0,0,0, 0,0,0,1>>
      [] a = TEST_GATEWAY -> <<254,128,0,0, 0,0,0,0, 0,0,0,0, 0,0,0,1>>
      [] a = TEST_NET -> <<32,1,13,184, 0,0,0,0, 0,0,0,0, 0,0,0,0>>
      [] a = TEST_ADDR_OTHER -> <<32,2,0,0, 0,0,0,0, 0,0,0,0, 0,0,0,9>>
      [] a = ZeroMac -> <<0,0,0,0,0,0>>
      [] a = TEST_MAC_LOCAL -> <<0,17,34,51,68,85>>
      [] a = TEST_MAC_REMOTE -> <<170,187,204,221,238,255>>

(* memcmp(a, b, n) == 0 *)
BytesEqual(a, b, n) == \A k \in 1..n : a[k] = b[k]

(* the remainder test without the mask: the whole byte is compared *)
MaskTopWholeByte(x, bits) == x

(* x & (uint8_t)(0xFF << (8 - bits)) *)
MaskTop(x, bits) == (x \div (2 ^ (8 - bits))) * (2 ^ (8 - bits))

RTNET_IPv6_PrefixMatch(addr, prefix, prefix_len) ==
    IF addr = NULL \/ prefix = NULL \/ prefix_len > 128
    THEN FALSE
    ELSE LET full_bytes == prefix_len \div 8
             remainder_bits == prefix_len % 8
         IN  /\ BytesEqual(Bytes(addr), Bytes(prefix), full_bytes)
             /\ remainder_bits > 0 =>
                  MaskTop(Bytes(addr)[full_bytes + 1], remainder_bits)
                    = MaskTop(Bytes(prefix)[full_bytes + 1], remainder_bits)

(* ------------------------------------------------------------------ *)
(* The context g_RTNET_Ctx, the clock, and the record of the last call *)
(* ------------------------------------------------------------------ *)
VARIABLES
    initialized,
    local_ipv6,
    local_mac,
    rx_buffers,
    tx_buffers,
    tcp_connections,
    routing_table,
    neighbor_cache,
    mdns_cache,
    stats,
    next_ephemeral_port,
    sequence_number,
    now,        \* value RTNET_GetTimeMs returns
    last,       \* the last call: operation, arguments, return code, output
    closed,     \* handles closed by tcp_close and not handed out again since
    steps,      \* calls and ticks made so far
    thread      \* the thread-context call an interrupt can preempt

ctx == <<initialized, local_ipv6, local_mac, rx_buffers, tx_buffers,
         tcp_connections, routing_table, neighbor_cache, mdns_cache, stats,
         next_ephemeral_port, sequence_number>>

vars == <<initialized, local_ipv6, local_mac, rx_buffers, tx_buffers,
          tcp_connections, routing_table, neighbor_cache, mdns_cache, stats,
          next_ephemeral_port, sequence_number, now, last, closed, steps,
          thread>>

TxIdx == 0..(RTNET_MAX_TX_BUFFERS - 1)
RxIdx == 0..(RTNET_MAX_RX_BUFFERS - 1)
ConnIdx == 0..(RTNET_MAX_TCP_CONNECTIONS - 1)
RouteIdx == 0..(RTNET_MAX_ROUTING_ENTRIES - 1)
NeighborIdx == 0..(RTNET_MAX_NEIGHBOR_CACHE - 1)
MdnsIdx == 0..(RTNET_MAX_MDNS_CACHE - 1)

(* all-zero objects: static storage, and memset(&g_RTNET_Ctx, 0, ...) *)
ZeroBuffer == [length |-> 0, qos_priority |-> 0, in_use |-> FALSE]

ZeroConn == [local_addr |-> ZeroAddr, remote_addr |-> ZeroAddr,
             local_port |-> 0, remote_port |-> 0,
             state |-> RTNET_TCP_CLOSED,
             last_activity_ms |-> U32Zero, in_use |-> FALSE]

ZeroRoute == [destination |-> ZeroAddr, next_hop |-> ZeroAddr,
              prefix_len |-> 0, metric |-> 0,
              last_used_ms |-> U32Zero, valid |-> FALSE]

ZeroNeighbor == [ipv6_addr |-> ZeroAddr, mac_addr |-> ZeroMac,
                 last_confirmed_ms |-> U32Zero, valid |-> FALSE]

ZeroMdns == [service_name |-> "", port |-> 0, valid |-> FALSE]

ZeroStats == [rx_packets |-> U32Zero, tx_packets |-> U32Zero,
              rx_errors |-> U32Zero, tx_errors |-> U32Zero,
              rx_dropped |-> U32Zero, tx_dropped |-> U32Zero,
              checksum_errors |-> U32Zero, routing_errors |-> U32Zero]

NoCall == [op |-> "none", args |-> <<>>, ret |-> RTNET_OK, out |-> <<>>]

Call(op, args, ret, out) == [op |-> op, args |-> args, ret |-> ret, out |-> out]

(* ------------------------------------------------------------------ *)
(* Routing                                                             *)
(* ------------------------------------------------------------------ *)
NoRoute == -1

RECURSIVE FindRouteFrom(_, _, _, _, _, _)
FindRouteFrom(table, dest_addr, i, best_match, best_prefix_len, best_metric) ==
    IF i = RTNET_MAX_ROUTING_ENTRIES
    THEN best_match
    ELSE LET entry == table[i]
         IN  IF /\ entry.valid
                /\ RTNET_IPv6_PrefixMatch(dest_addr, entry.destination, entry.prefix_len)
                /\ \/ entry.prefix_len > best_prefix_len
                   \/ (entry.prefix_len = best_prefix_len /\ entry.metric < best_metric)
             THEN FindRouteFrom(table, dest_addr, i + 1, i, entry.prefix_len, entry.metric)
             ELSE FindRouteFrom(table, dest_addr, i + 1, best_match, best_prefix_len, best_metric)

(* index of the selected entry, NoRoute for a NULL result *)
RTNET_FindRoute(table, dest_addr) ==
    IF dest_addr = NULL
    THEN NoRoute
    ELSE FindRouteFrom(table, dest_addr, 0, NoRoute, 0, UINT16_MAX)

(* the insertion loop stopping one slot short of the table *)
FirstInvalidRouteBelowLast(table) ==
    IF \E i \in RouteIdx : i < RTNET_MAX_ROUTING_ENTRIES - 1 /\ ~table[i].valid
    THEN CHOOSE i \in RouteIdx :
            ~table[i].valid /\ \A j \in RouteIdx : j < i => table[j].valid
    ELSE NoRoute

(* the slot the insertion loop of RTNET_AddRoute stops at, NoRoute if none *)
FirstInvalidRoute(table) ==
    IF \E i \in RouteIdx : ~table[i].valid
    THEN CHOOSE i \in RouteIdx :
            ~table[i].valid /\ \A j \in RouteIdx : j < i => table[j].valid
    ELSE NoRoute

(* RTNET_AddRoute as a function of the table: <<return code, new table>> *)
(* RTNET_AddRoute without the upper bound on prefix_len *)
AddRouteTo_NoPrefixCheck(table, destination, prefix_len, next_hop, metric, t) ==
    IF destination = NULL
    THEN <<RTNET_ERR_INVALID_PARAM, table>>
    ELSE LET i == FirstInvalidRoute(table)
         IN  IF i = NoRoute
             THEN <<RTNET_ERR_OVERFLOW, table>>
             ELSE <<RTNET_OK,
                    [table EXCEPT ![i] =
                        [destination |-> destination,
                         next_hop |-> IF next_hop # NULL THEN next_hop ELSE ZeroAddr,
                         prefix_len |-> prefix_len,
                         metric |-> metric,
                         last_used_ms |-> t,
                         valid |-> TRUE]]>>

AddRouteTo(table, destination, prefix_len, next_hop, metric, t) ==
    IF destination = NULL \/ prefix_len > 128
    THEN <<RTNET_ERR_INVALID_PARAM, table>>
    ELSE LET i == FirstInvalidRoute(table)
         IN  IF i = NoRoute
             THEN <<RTNET_ERR_OVERFLOW, table>>
             ELSE <<RTNET_OK,
                    [table EXCEPT ![i] =
                        [destination |-> destination,
                         next_hop |-> IF next_hop # NULL THEN next_hop ELSE ZeroAddr,
                         prefix_len |-> prefix_len,
                         metric |-> metric,
                         last_used_ms |-> t,
                         valid |-> TRUE]]>>


(* ------------------------------------------------------------------ *)
(* Small helpers over the tables                                       *)
(* ------------------------------------------------------------------ *)
NoIndex == -1

(* the buffer search that hands out the last buffer when none is free *)
FirstFreeTxReusesLast(pool) ==
    IF \E i \in TxIdx : ~pool[i].in_use
    THEN CHOOSE i \in TxIdx :
            ~pool[i].in_use /\ \A j \in TxIdx : j < i => pool[j].in_use
    ELSE RTNET_MAX_TX_BUFFERS - 1

(* first index of the pool whose buffer is free (the loop of RTNET_UDP_Send) *)
FirstFreeTx(pool) ==
    IF \E i \in TxIdx : ~pool[i].in_use
    THEN CHOOSE i \in TxIdx :
            ~pool[i].in_use /\ \A j \in TxIdx : j < i => pool[j].in_use
    ELSE NoIndex

(* the slot search that hands out the last slot when none is free *)
FirstFreeConnReusesLast(conns) ==
    IF \E i \in ConnIdx : ~conns[i].in_use
    THEN CHOOSE i \in ConnIdx :
            ~conns[i].in_use /\ \A j \in ConnIdx : j < i => conns[j].in_use
    ELSE RTNET_MAX_TCP_CONNECTIONS - 1

(* first free connection slot (the loop of RTNET_TCP_Connect) *)
FirstFreeConn(conns) ==
    IF \E i \in ConnIdx : ~conns[i].in_use
    THEN CHOOSE i \in ConnIdx :
            ~conns[i].in_use /\ \A j \in ConnIdx : j < i => conns[j].in_use
    ELSE NoIndex

(* g_RTNET_Ctx.next_ephemeral_port++ on a uint16_t *)
PortIncrement(p) == (p + 1) % 65536

(* the counter after the auto-assign branch of RTNET_UDP_Send *)
UdpPortAfter(p) ==
    IF PortIncrement(p) = 0 THEN EPHEMERAL_BASE ELSE PortIncrement(p)

(* the counter after the assignment in RTNET_TCP_Connect *)
TcpPortAfter(p) == PortIncrement(p)

(* (now - stamp) > limit, in uint32_t arithmetic *)
Expired(t, stamp, limit) == U32Gt(U32Sub(t, stamp), limit)

(* stats.field++ on a uint32_t *)
Bump(s, field) == [s EXCEPT ![field] = U32Add(@, 1)]

(* ------------------------------------------------------------------ *)
(* Public operations.  Each action is one whole call; it leaves the    *)
(* clock alone and records the call in last.                           *)
(* ------------------------------------------------------------------ *)
(* RTNET_Initialize with the memset ahead of the pointer checks *)
Initialize_MemsetFirst(local_ipv6_arg, local_mac_arg) ==
    /\ UNCHANGED <<now, closed>>
    /\ rx_buffers' = [i \in RxIdx |-> ZeroBuffer]
    /\ tx_buffers' = [i \in TxIdx |-> ZeroBuffer]
    /\ tcp_connections' = [i \in ConnIdx |-> ZeroConn]
    /\ neighbor_cache' = [i \in NeighborIdx |-> ZeroNeighbor]
    /\ mdns_cache' = [i \in MdnsIdx |-> ZeroMdns]
    /\ stats' = ZeroStats
    /\ IF local_ipv6_arg = NULL \/ local_mac_arg = NULL
       THEN /\ local_ipv6' = ZeroAddr
            /\ local_mac' = ZeroMac
            /\ next_ephemeral_port' = 0
            /\ sequence_number' = U32Zero
            /\ routing_table' = [i \in RouteIdx |-> ZeroRoute]
            /\ initialized' = FALSE
            /\ last' = Call("initialize", <<local_ipv6_arg, local_mac_arg>>,
                            RTNET_ERR_INVALID_PARAM, <<>>)
       ELSE /\ local_ipv6' = local_ipv6_arg
            /\ local_mac' = local_mac_arg
            /\ next_ephemeral_port' = EPHEMERAL_BASE
            /\ sequence_number' = now
            /\ routing_table' =
                 AddRouteTo([i \in RouteIdx |-> ZeroRoute],
                            LinkLocalPrefix, 10, NULL, 1, now)[2]
            /\ initialized' = TRUE
            /\ last' = Call("initialize", <<local_ipv6_arg, local_mac_arg>>,
                            RTNET_OK, <<>>)

(* RTNET_Initialize without the memset of the context *)
Initialize_NoMemset(local_ipv6_arg, local_mac_arg) ==
    /\ UNCHANGED <<now, closed>>
    /\ IF local_ipv6_arg = NULL \/ local_mac_arg = NULL
       THEN /\ UNCHANGED ctx
            /\ last' = Call("initialize", <<local_ipv6_arg, local_mac_arg>>,
                            RTNET_ERR_INVALID_PARAM, <<>>)
       ELSE /\ UNCHANGED <<rx_buffers, tx_buffers, tcp_connections,
                           neighbor_cache, mdns_cache, stats>>
            /\ local_ipv6' = local_ipv6_arg
            /\ local_mac' = local_mac_arg
            /\ next_ephemeral_port' = EPHEMERAL_BASE
            /\ sequence_number' = now
            /\ routing_table' =
                 AddRouteTo(routing_table, LinkLocalPrefix, 10, NULL, 1, now)[2]
            /\ initialized' = TRUE
            /\ last' = Call("initialize", <<local_ipv6_arg, local_mac_arg>>,
                            RTNET_OK, <<>>)

RTNET_Initialize(local_ipv6_arg, local_mac_arg) ==
    /\ UNCHANGED <<now, closed>>
    /\ IF local_ipv6_arg = NULL \/ local_mac_arg = NULL
       THEN /\ UNCHANGED ctx
            /\ last' = Call("initialize", <<local_ipv6_arg, local_mac_arg>>,
                            RTNET_ERR_INVALID_PARAM, <<>>)
       ELSE /\ rx_buffers' = [i \in RxIdx |-> ZeroBuffer]
            /\ tx_buffers' = [i \in TxIdx |-> ZeroBuffer]
            /\ tcp_connections' = [i \in ConnIdx |-> ZeroConn]
            /\ neighbor_cache' = [i \in NeighborIdx |-> ZeroNeighbor]
            /\ mdns_cache' = [i \in MdnsIdx |-> ZeroMdns]
            /\ stats' = ZeroStats
            /\ local_ipv6' = local_ipv6_arg
            /\ local_mac' = local_mac_arg
            /\ next_ephemeral_port' = EPHEMERAL_BASE
            /\ sequence_number' = now
            /\ routing_table' =
                 AddRouteTo([i \in RouteIdx |-> ZeroRoute],
                            LinkLocalPrefix, 10, NULL, 1, now)[2]
            /\ initialized' = TRUE
            /\ last' = Call("initialize", <<local_ipv6_arg, local_mac_arg>>,
                            RTNET_OK, <<>>)

RTNET_AddRoute(destination, prefix_len, next_hop, metric) ==
    LET r == AddRouteTo(routing_table, destination, prefix_len, next_hop, metric, now)
    IN  /\ routing_table' = r[2]
        /\ last' = Call("add_route", <<destination, prefix_len, next_hop, metric>>,
                        r[1], <<>>)
        /\ UNCHANGED <<initialized, local_ipv6, local_mac, rx_buffers, tx_buffers,
                       tcp_connections, neighbor_cache, mdns_cache, stats,
                       next_ephemeral_port, sequence_number, now, closed>>

RTNET_GetStatistics(stats_ptr) ==
    /\ UNCHANGED <<ctx, now, closed>>
    /\ last' = IF stats_ptr = NULL
               THEN Call("get_statistics", <<stats_ptr>>, RTNET_ERR_INVALID_PARAM, <<>>)
               ELSE Call("get_statistics", <<stats_ptr>>, RTNET_OK, <<stats>>)

(* the three aging loops of RTNET_PeriodicTask *)
AgedNeighbors(cache, t) ==
    [i \in NeighborIdx |->
        IF cache[i].valid /\ Expired(t, cache[i].last_confirmed_ms, NEIGHBOR_AGE_MS)
        THEN [cache[i] EXCEPT !.valid = FALSE]
        ELSE cache[i]]

(* the route aging test with >= in place of > *)
AgedRoutesAtLimit(table, t) ==
    [i \in RouteIdx |->
        IF table[i].valid /\ Expired(t, table[i].last_used_ms, ROUTE_AGE_MS - 1)
        THEN [table[i] EXCEPT !.valid = FALSE]
        ELSE table[i]]

AgedRoutes(table, t) ==
    [i \in RouteIdx |->
        IF table[i].valid /\ Expired(t, table[i].last_used_ms, ROUTE_AGE_MS)
        THEN [table[i] EXCEPT !.valid = FALSE]
        ELSE table[i]]

(* the timeout test with >= in place of > *)
TcpTimedOutAtLimit(conn, t) ==
    conn.in_use /\ Expired(t, conn.last_activity_ms, RTNET_TCP_TIMEOUT_MS - 1)

TcpTimedOut(conn, t) ==
    conn.in_use /\ Expired(t, conn.last_activity_ms, RTNET_TCP_TIMEOUT_MS)

AgedConns(conns, t) ==
    [i \in ConnIdx |->
        IF TcpTimedOut(conns[i], t)
        THEN [conns[i] EXCEPT !.state = RTNET_TCP_CLOSED, !.in_use = FALSE]
        ELSE conns[i]]

RTNET_PeriodicTask ==
    /\ neighbor_cache' = AgedNeighbors(neighbor_cache, now)
    /\ routing_table' = AgedRoutes(routing_table, now)
    /\ tcp_connections' = AgedConns(tcp_connections, now)
    /\ last' = Call("periodic_task", <<>>, RTNET_OK, <<>>)
    /\ UNCHANGED <<initialized, local_ipv6, local_mac, rx_buffers, tx_buffers,
                   mdns_cache, stats, next_ephemeral_port, sequence_number,
                   now, closed>>

RTNET_ProcessRxPacket(data, length) ==
    /\ UNCHANGED <<initialized, local_ipv6, local_mac, rx_buffers, tx_buffers,
                   tcp_connections, routing_table, neighbor_cache, mdns_cache,
                   next_ephemeral_port, sequence_number, now, closed>>
    /\ IF data = NULL \/ length = 0
       THEN /\ UNCHANGED stats
            /\ last' = Call("process_rx", <<data, length>>, RTNET_ERR_INVALID_PARAM, <<>>)
       ELSE /\ stats' = Bump(stats, "rx_packets")
            /\ last' = Call("process_rx", <<data, length>>,
                            IF length < 14 + 40 THEN RTNET_ERR_INVALID_PARAM
                                                ELSE RTNET_ERR_CHECKSUM,
                            <<>>)

(* RTNET_UDP_Send without the upper bound on payload_len *)
UDP_Send_NoMtuCheck(dest_addr, dest_port, src_port, payload, payload_len, qos_priority) ==
    LET args == <<dest_addr, dest_port, src_port, payload, payload_len, qos_priority>>
        assigned == IF src_port = 0 THEN next_ephemeral_port ELSE src_port
        route == RTNET_FindRoute(routing_table, dest_addr)
        buf == FirstFreeTx(tx_buffers)
    IN  /\ UNCHANGED <<initialized, local_ipv6, local_mac, rx_buffers,
                       tcp_connections, routing_table, neighbor_cache, mdns_cache,
                       sequence_number, now, closed>>
        /\ IF \/ ~initialized
              \/ dest_addr = NULL \/ dest_port = 0 \/ payload = NULL \/ payload_len = 0
           THEN /\ UNCHANGED <<tx_buffers, stats, next_ephemeral_port>>
                /\ last' = Call("udp_send", args, RTNET_ERR_INVALID_PARAM, <<>>)
           ELSE /\ next_ephemeral_port' =
                     IF src_port = 0 THEN UdpPortAfter(next_ephemeral_port)
                                     ELSE next_ephemeral_port
                /\ IF route = NoRoute
                   THEN /\ stats' = Bump(stats, "routing_errors")
                        /\ UNCHANGED tx_buffers
                        /\ last' = Call("udp_send", args, RTNET_ERR_NO_ROUTE, <<assigned>>)
                   ELSE IF buf = NoIndex
                   THEN /\ stats' = Bump(stats, "tx_dropped")
                        /\ UNCHANGED tx_buffers
                        /\ last' = Call("udp_send", args, RTNET_ERR_NO_BUFFER, <<assigned>>)
                   ELSE /\ tx_buffers' =
                             [tx_buffers EXCEPT ![buf] =
                                 [length |-> payload_len,
                                  qos_priority |-> qos_priority,
                                  in_use |-> TRUE]]
                        /\ stats' = Bump(stats, "tx_packets")
                        /\ last' = Call("udp_send", args, RTNET_OK, <<assigned>>)

RTNET_UDP_Send(dest_addr, dest_port, src_port, payload, payload_len, qos_priority) ==
    LET args == <<dest_addr, dest_port, src_port, payload, payload_len, qos_priority>>
        assigned == IF src_port = 0 THEN next_ephemeral_port ELSE src_port
        route == RTNET_FindRoute(routing_table, dest_addr)
        buf == FirstFreeTx(tx_buffers)
    IN  /\ UNCHANGED <<initialized, local_ipv6, local_mac, rx_buffers,
                       tcp_connections, routing_table, neighbor_cache, mdns_cache,
                       sequence_number, now, closed>>
        /\ IF \/ ~initialized
              \/ dest_addr = NULL \/ dest_port = 0 \/ payload = NULL \/ payload_len = 0
              \/ payload_len > RTNET_MTU_SIZE
           THEN /\ UNCHANGED <<tx_buffers, stats, next_ephemeral_port>>
                /\ last' = Call("udp_send", args, RTNET_ERR_INVALID_PARAM, <<>>)
           ELSE /\ next_ephemeral_port' =
                     IF src_port = 0 THEN UdpPortAfter(next_ephemeral_port)
                                     ELSE next_ephemeral_port
                /\ IF route = NoRoute
                   THEN /\ stats' = Bump(stats, "routing_errors")
                        /\ UNCHANGED tx_buffers
                        /\ last' = Call("udp_send", args, RTNET_ERR_NO_ROUTE, <<assigned>>)
                   ELSE IF buf = NoIndex
                   THEN /\ stats' = Bump(stats, "tx_dropped")
                        /\ UNCHANGED tx_buffers
                        /\ last' = Call("udp_send", args, RTNET_ERR_NO_BUFFER, <<assigned>>)
                   ELSE /\ tx_buffers' =
                             [tx_buffers EXCEPT ![buf] =
                                 [length |-> payload_len,
                                  qos_priority |-> qos_priority,
                                  in_use |-> TRUE]]
                        /\ stats' = Bump(stats, "tx_packets")
                        /\ last' = Call("udp_send", args, RTNET_OK, <<assigned>>)

RTNET_TCP_Connect(dest_addr, dest_port, connection_id) ==
    LET args == <<dest_addr, dest_port, connection_id>>
        route == RTNET_FindRoute(routing_table, dest_addr)
        i == FirstFreeConn(tcp_connections)
    IN  /\ UNCHANGED <<initialized, local_ipv6, local_mac, rx_buffers, tx_buffers,
                       routing_table, neighbor_cache, mdns_cache, sequence_number, now>>
        /\ IF \/ ~initialized
              \/ dest_addr = NULL \/ dest_port = 0 \/ connection_id = NULL
           THEN /\ UNCHANGED <<tcp_connections, stats, next_ephemeral_port, closed>>
                /\ last' = Call("tcp_connect", args, RTNET_ERR_INVALID_PARAM, <<>>)
           ELSE IF route = NoRoute
           THEN /\ stats' = Bump(stats, "routing_errors")
                /\ UNCHANGED <<tcp_connections, next_ephemeral_port, closed>>
                /\ last' = Call("tcp_connect", args, RTNET_ERR_NO_ROUTE, <<>>)
           ELSE IF i = NoIndex
           THEN /\ UNCHANGED <<tcp_connections, stats, next_ephemeral_port, closed>>
                /\ last' = Call("tcp_connect", args, RTNET_ERR_NO_BUFFER, <<>>)
           ELSE /\ tcp_connections' =
                     [tcp_connections EXCEPT ![i] =
                         [local_addr |-> local_ipv6,
                          remote_addr |-> dest_addr,
                          local_port |-> next_ephemeral_port,
                          remote_port |-> dest_port,
                          state |-> RTNET_TCP_ESTABLISHED,
                          last_activity_ms |-> now,
                          in_use |-> TRUE]]
                /\ next_ephemeral_port' = TcpPortAfter(next_ephemeral_port)
                /\ closed' = closed \ {i}
                /\ UNCHANGED stats
                /\ last' = Call("tcp_connect", args, RTNET_OK, <<i, next_ephemeral_port>>)

(* RTNET_TCP_Send without the in_use test *)
TCP_Send_NoInUseCheck(connection_id, data, length) ==
    LET args == <<connection_id, data, length>>
    IN  /\ UNCHANGED <<initialized, local_ipv6, local_mac, rx_buffers, tx_buffers,
                       routing_table, neighbor_cache, mdns_cache,
                       next_ephemeral_port, sequence_number, now, closed>>
        /\ IF data = NULL \/ length = 0 \/ connection_id >= RTNET_MAX_TCP_CONNECTIONS
           THEN /\ UNCHANGED <<tcp_connections, stats>>
                /\ last' = Call("tcp_send", args, RTNET_ERR_INVALID_PARAM, <<>>)
           ELSE /\ tcp_connections' =
                     [tcp_connections EXCEPT ![connection_id].last_activity_ms = now]
                /\ stats' = Bump(stats, "tx_packets")
                /\ last' = Call("tcp_send", args, RTNET_OK, <<>>)

RTNET_TCP_Send(connection_id, data, length) ==
    LET args == <<connection_id, data, length>>
    IN  /\ UNCHANGED <<initialized, local_ipv6, local_mac, rx_buffers, tx_buffers,
                       routing_table, neighbor_cache, mdns_cache,
                       next_ephemeral_port, sequence_number, now, closed>>
        /\ IF data = NULL \/ length = 0 \/ connection_id >= RTNET_MAX_TCP_CONNECTIONS
           THEN /\ UNCHANGED <<tcp_connections, stats>>
                /\ last' = Call("tcp_send", args, RTNET_ERR_INVALID_PARAM, <<>>)
           ELSE IF ~tcp_connections[connection_id].in_use
           THEN /\ UNCHANGED <<tcp_connections, stats>>
                /\ last' = Call("tcp_send", args, RTNET_ERR_CONNECTION, <<>>)
           ELSE /\ tcp_connections' =
                     [tcp_connections EXCEPT ![connection_id].last_activity_ms = now]
                /\ stats' = Bump(stats, "tx_packets")
                /\ last' = Call("tcp_send", args, RTNET_OK, <<>>)

(* RTNET_TCP_Close that marks the connection closed and keeps the slot *)
TCP_Close_KeepsSlot(connection_id) ==
    LET args == <<connection_id>>
    IN  /\ UNCHANGED <<initialized, local_ipv6, local_mac, rx_buffers, tx_buffers,
                       routing_table, neighbor_cache, mdns_cache, stats,
                       next_ephemeral_port, sequence_number, now>>
        /\ IF connection_id >= RTNET_MAX_TCP_CONNECTIONS
           THEN /\ UNCHANGED <<tcp_connections, closed>>
                /\ last' = Call("tcp_close", args, RTNET_ERR_INVALID_PARAM, <<>>)
           ELSE IF ~tcp_connections[connection_id].in_use
           THEN /\ UNCHANGED <<tcp_connections, closed>>
                /\ last' = Call("tcp_close", args, RTNET_ERR_CONNECTION, <<>>)
           ELSE /\ tcp_connections' =
                     [tcp_connections EXCEPT ![connection_id].state = RTNET_TCP_CLOSED]
                /\ closed' = closed \cup {connection_id}
                /\ last' = Call("tcp_close", args, RTNET_OK, <<>>)

RTNET_TCP_Close(connection_id) ==
    LET args == <<connection_id>>
    IN  /\ UNCHANGED <<initialized, local_ipv6, local_mac, rx_buffers, tx_buffers,
                       routing_table, neighbor_cache, mdns_cache, stats,
                       next_ephemeral_port, sequence_number, now>>
        /\ IF connection_id >= RTNET_MAX_TCP_CONNECTIONS
           THEN /\ UNCHANGED <<tcp_connections, closed>>
                /\ last' = Call("tcp_close", args, RTNET_ERR_INVALID_PARAM, <<>>)
           ELSE IF ~tcp_connections[connection_id].in_use
           THEN /\ UNCHANGED <<tcp_connections, closed>>
                /\ last' = Call("tcp_close", args, RTNET_ERR_CONNECTION, <<>>)
           ELSE /\ tcp_connections' =
                     [tcp_connections EXCEPT ![connection_id].in_use = FALSE,
                                             ![connection_id].state = RTNET_TCP_CLOSED]
                /\ closed' = closed \cup {connection_id}
                /\ last' = Call("tcp_close", args, RTNET_OK, <<>>)

(* service names are strings; NULL_NAME is the absent pointer *)
NULL_NAME == "NULL"

RTNET_mDNS_Query(service_name, result) ==
    /\ UNCHANGED <<ctx, now, closed>>
    /\ last' = IF service_name = NULL_NAME \/ result = NULL
               THEN Call("mdns_query", <<service_name, result>>,
                         RTNET_ERR_INVALID_PARAM, <<>>)
               ELSE Call("mdns_query", <<service_name, result>>,
                         RTNET_ERR_TIMEOUT, <<ZeroMdns>>)

RTNET_mDNS_Announce(service_name, port, ttl_sec) ==
    /\ UNCHANGED <<initialized, local_ipv6, local_mac, rx_buffers, tx_buffers,
                   tcp_connections, routing_table, neighbor_cache, mdns_cache,
                   next_ephemeral_port, sequence_number, now, closed>>
    /\ IF service_name = NULL_NAME \/ port = 0 \/ ttl_sec = 0
       THEN /\ UNCHANGED stats
            /\ last' = Call("mdns_announce", <<service_name, port, ttl_sec>>,
                            RTNET_ERR_INVALID_PARAM, <<>>)
       ELSE /\ stats' = Bump(stats, "tx_packets")
            /\ last' = Call("mdns_announce", <<service_name, port, ttl_sec>>,
                            RTNET_OK, <<>>)

(* the platform clock moves on by d milliseconds between two calls; the   *)
(* readings RTNET_GetTimeMs gives within one call are taken as one value *)
Tick(d) ==
    /\ now' = U32Add(now, d)
    /\ last' = Call("tick", <<d>>, RTNET_OK, <<>>)
    /\ UNCHANGED <<ctx, closed>>

(* ------------------------------------------------------------------ *)
(* Inputs                                                              *)
(* ------------------------------------------------------------------ *)
(* any non-null data pointer *)
VALID_PTR == "ptr"

InitInputs ==
    { <<NULL, TEST_MAC_LOCAL>>, <<TEST_ADDR_LOCAL, NULL>>,
      <<TEST_ADDR_LOCAL, TEST_MAC_LOCAL>> }

(* <<destination, prefix_len, next_hop, metric>> *)
RouteInputs ==
    { <<NULL, 128, NULL, 1>>,
      <<TEST_ADDR_REMOTE, 129, NULL, 1>>,
      <<TEST_ADDR_REMOTE, 128, NULL, 1>>,
      <<TEST_NET, 32, TEST_GATEWAY, 10>>,
      <<LinkLocalPrefix, 10, NULL, 5>>,
      <<ZeroAddr, 0, NULL, 1>>,
      <<ZeroAddr, 0, NULL, UINT16_MAX>> }

(* <<dest_addr, dest_port, src_port, payload, payload_len, qos_priority>> *)
UdpInputs ==
    { <<NULL, 12345, 0, VALID_PTR, 15, RTNET_QOS_NORMAL>>,
      <<TEST_ADDR_REMOTE, 0, 0, VALID_PTR, 15, RTNET_QOS_NORMAL>>,
      <<TEST_ADDR_REMOTE, 12345, 0, NULL, 100, RTNET_QOS_NORMAL>>,
      <<TEST_ADDR_REMOTE, 12345, 0, VALID_PTR, 0, RTNET_QOS_NORMAL>>,
      <<TEST_ADDR_REMOTE, 12345, 0, VALID_PTR, RTNET_MTU_SIZE + 1, RTNET_QOS_NORMAL>>,
      <<TEST_ADDR_REMOTE, 12345, 0, VALID_PTR, 1, RTNET_QOS_NORMAL>>,
      <<TEST_ADDR_REMOTE, 12345, 1234, VALID_PTR, RTNET_MTU_SIZE, RTNET_QOS_CRITICAL>>,
      <<TEST_GATEWAY, 5000, 0, VALID_PTR, RTNET_MTU_SIZE, RTNET_QOS_CRITICAL>>,
      <<TEST_GATEWAY, 5000, 1234, VALID_PTR, 1, RTNET_QOS_NORMAL>>,
      <<TEST_ADDR_OTHER, 5000, 0, VALID_PTR, 1, RTNET_QOS_NORMAL>> }

(* <<dest_addr, dest_port, connection_id>> *)
ConnectInputs ==
    { <<NULL, 80, VALID_PTR>>, <<TEST_ADDR_REMOTE, 0, VALID_PTR>>,
      <<TEST_ADDR_REMOTE, 80, NULL>>,
      <<TEST_ADDR_REMOTE, 80, VALID_PTR>>, <<TEST_GATEWAY, 80, VALID_PTR>> }

(* <<connection_id, data, length>> : every slot, and one index past the table *)
TcpSendInputs ==
    { <<h, VALID_PTR, 18>> : h \in 0..RTNET_MAX_TCP_CONNECTIONS }
      \cup { <<0, NULL, 18>>, <<0, VALID_PTR, 0>> }

CloseInputs == 0..RTNET_MAX_TCP_CONNECTIONS

(* <<data, length>> *)
RxInputs == { <<NULL, 62>>, <<VALID_PTR, 0>>, <<VALID_PTR, 53>>, <<VALID_PTR, 62>> }

QueryInputs ==
    { <<NULL_NAME, VALID_PTR>>, <<"_http._tcp.local", NULL>>,
      <<"", VALID_PTR>>, <<"_http._tcp.local", VALID_PTR>> }

(* <<service_name, port, ttl_sec>> *)
AnnounceInputs ==
    { <<NULL_NAME, 8080, 3600>>, <<"_device._tcp.local", 0, 3600>>,
      <<"_device._tcp.local", 8080, 0>>, <<"_device._tcp.local", 8080, 3600>> }

(* 10 is the step of the host clock *)
TickDeltas == {10, RTNET_TCP_TIMEOUT_MS, ROUTE_AGE_MS}

(* ------------------------------------------------------------------ *)
(* Specification: every operation, from the zeroed static context      *)
(* ------------------------------------------------------------------ *)
(* no thread-context call is in progress: pc is the position of the    *)
(* thread in its call, slot its local pointer (an index, NoIndex for   *)
(* NULL), sport its local source port, irq the slots interrupt         *)
(* handlers took or closed since the call was entered                  *)
NoThread ==
    [pc |-> "idle", op |-> "none", args |-> <<>>, slot |-> NoIndex,
     sport |-> 0, irq |-> {}, ret |-> RTNET_OK]

Init ==
    /\ initialized = FALSE
    /\ local_ipv6 = ZeroAddr
    /\ local_mac = ZeroMac
    /\ rx_buffers = [i \in RxIdx |-> ZeroBuffer]
    /\ tx_buffers = [i \in TxIdx |-> ZeroBuffer]
    /\ tcp_connections = [i \in ConnIdx |-> ZeroConn]
    /\ routing_table = [i \in RouteIdx |-> ZeroRoute]
    /\ neighbor_cache = [i \in NeighborIdx |-> ZeroNeighbor]
    /\ mdns_cache = [i \in MdnsIdx |-> ZeroMdns]
    /\ stats = ZeroStats
    /\ next_ephemeral_port = 0
    /\ sequence_number = U32Zero
    /\ now = U32Zero
    /\ last = NoCall
    /\ closed = {}
    /\ steps = 0
    /\ thread = NoThread

(* one more call or tick *)
Advance == steps < MaxSteps /\ steps' = steps + 1

(* a call that runs from entry to return with nothing in between *)
Step == Advance /\ UNCHANGED thread

DoInitialize == Step /\ \E a \in InitInputs : RTNET_Initialize(a[1], a[2])

DoAddRoute == Step /\ \E a \in RouteInputs : RTNET_AddRoute(a[1], a[2], a[3], a[4])

DoGetStatistics == Step /\ \E p \in {NULL, VALID_PTR} : RTNET_GetStatistics(p)

DoPeriodicTask == Step /\ RTNET_PeriodicTask

DoProcessRxPacket == Step /\ \E a \in RxInputs : RTNET_ProcessRxPacket(a[1], a[2])

DoUdpSend ==
    Step /\ \E a \in UdpInputs : RTNET_UDP_Send(a[1], a[2], a[3], a[4], a[5], a[6])

DoTcpConnect == Step /\ \E a \in ConnectInputs : RTNET_TCP_Connect(a[1], a[2], a[3])

DoTcpSend == Step /\ \E a \in TcpSendInputs : RTNET_TCP_Send(a[1], a[2], a[3])

DoTcpClose == Step /\ \E h \in CloseInputs : RTNET_TCP_Close(h)

DoQuery == Step /\ \E a \in QueryInputs : RTNET_mDNS_Query(a[1], a[2])

DoAnnounce == Step /\ \E a \in AnnounceInputs : RTNET_mDNS_Announce(a[1], a[2], a[3])

DoTick == Step /\ \E d \in TickDeltas : Tick(d)

Next ==
    \/ DoInitialize
    \/ DoAddRoute
    \/ DoGetStatistics
    \/ DoPeriodicTask
    \/ DoProcessRxPacket
    \/ DoUdpSend
    \/ DoTcpConnect
    \/ DoTcpSend
    \/ DoTcpClose
    \/ DoQuery
    \/ DoAnnounce
    \/ DoTick

Spec == Init /\ [][Next]_vars


(* ------------------------------------------------------------------ *)
(* Deeper starting points.  Each is the state a stated sequence of     *)
(* calls leaves when made at clock value 0 from the zeroed context;    *)
(* every operation is explored from it.                                *)
(* ------------------------------------------------------------------ *)

(* routing table right after RTNET_Initialize at time 0 *)
LinkLocalTable ==
    AddRouteTo([i \in RouteIdx |-> ZeroRoute], LinkLocalPrefix, 10, NULL, 1, U32Zero)[2]

(* what RTNET_Initialize(TEST_ADDR_LOCAL, TEST_MAC_LOCAL) fixes and no call *)
(* of the sequences below changes                                          *)
AfterInitialize ==
    /\ initialized = TRUE
    /\ local_ipv6 = TEST_ADDR_LOCAL
    /\ local_mac = TEST_MAC_LOCAL
    /\ rx_buffers = [i \in RxIdx |-> ZeroBuffer]
    /\ neighbor_cache = [i \in NeighborIdx |-> ZeroNeighbor]
    /\ mdns_cache = [i \in MdnsIdx |-> ZeroMdns]
    /\ sequence_number = U32Zero
    /\ now = U32Zero
    /\ closed = {}
    /\ steps = 0
    /\ thread = NoThread

(* slots 0..n-1 after n calls tcp_connect(fe80::1, 80) *)
ConnectedSlots(n) ==
    [i \in ConnIdx |->
        IF i < n
        THEN [local_addr |-> TEST_ADDR_LOCAL, remote_addr |-> TEST_GATEWAY,
              local_port |-> EPHEMERAL_BASE + i, remote_port |-> 80,
              state |-> RTNET_TCP_ESTABLISHED,
              last_activity_ms |-> U32Zero, in_use |-> TRUE]
        ELSE ZeroConn]

(* buffers 0..n-1 after n calls udp_send(fe80::1, 5000, 1234, payload, 1, NORMAL) *)
SentBuffers(n) ==
    [i \in TxIdx |->
        IF i < n
        THEN [length |-> 1, qos_priority |-> RTNET_QOS_NORMAL, in_use |-> TRUE]
        ELSE ZeroBuffer]

(* table after initialize and n calls add_route(2001:db8::1, 128, NULL, 1): *)
(* each call fills the first invalid slot                                   *)
FilledTable(n) ==
    [i \in RouteIdx |->
        IF i = 0 THEN LinkLocalTable[0]
        ELSE IF i <= n
        THEN [destination |-> TEST_ADDR_REMOTE, next_hop |-> ZeroAddr,
              prefix_len |-> 128, metric |-> 1,
              last_used_ms |-> U32Zero, valid |-> TRUE]
        ELSE ZeroRoute]

(* initialize, then three tcp_connect(fe80::1, 80) *)
WarmConnections == 3

InitTcp ==
    /\ AfterInitialize
    /\ routing_table = LinkLocalTable
    /\ tx_buffers = [i \in TxIdx |-> ZeroBuffer]
    /\ tcp_connections = ConnectedSlots(WarmConnections)
    /\ stats = ZeroStats
    /\ next_ephemeral_port = EPHEMERAL_BASE + WarmConnections
    /\ last = Call("tcp_connect", <<TEST_GATEWAY, 80, VALID_PTR>>, RTNET_OK,
                   <<WarmConnections - 1, EPHEMERAL_BASE + WarmConnections - 1>>)

SpecTcp == InitTcp /\ [][Next]_vars

(* initialize, then seven udp_send(fe80::1, 5000, 1234, payload, 1, NORMAL) *)
WarmSends == 7

InitTx ==
    /\ AfterInitialize
    /\ routing_table = LinkLocalTable
    /\ tx_buffers = SentBuffers(WarmSends)
    /\ tcp_connections = [i \in ConnIdx |-> ZeroConn]
    /\ stats = [ZeroStats EXCEPT !.tx_packets = U32(WarmSends)]
    /\ next_ephemeral_port = EPHEMERAL_BASE
    /\ last = Call("udp_send",
                   <<TEST_GATEWAY, 5000, 1234, VALID_PTR, 1, RTNET_QOS_NORMAL>>,
                   RTNET_OK, <<1234>>)

SpecTx == InitTx /\ [][Next]_vars

(* the counter after n auto-assigning udp_send calls that start with it at p *)
(* in 49152..65535: UdpPortAfter applied n times                             *)
PortAfterSends(p, n) ==
    EPHEMERAL_BASE + ((p - EPHEMERAL_BASE + n) % (65536 - EPHEMERAL_BASE))

(* initialize, one tcp_connect(fe80::1, 80), then WarmPortSends calls        *)
(* udp_send(2002::9, 5000, 0, payload, 1, NORMAL), each failing with         *)
(* no_route after drawing an ephemeral port: the counter stands at 0xFFFF    *)
WarmPortSends == 16382

InitPorts ==
    /\ AfterInitialize
    /\ routing_table = LinkLocalTable
    /\ tx_buffers = [i \in TxIdx |-> ZeroBuffer]
    /\ tcp_connections = ConnectedSlots(1)
    /\ stats = [ZeroStats EXCEPT !.routing_errors = U32(WarmPortSends)]
    /\ next_ephemeral_port = PortAfterSends(EPHEMERAL_BASE + 1, WarmPortSends)
    /\ last = Call("udp_send",
                   <<TEST_ADDR_OTHER, 5000, 0, VALID_PTR, 1, RTNET_QOS_NORMAL>>,
                   RTNET_ERR_NO_ROUTE,
                   <<PortAfterSends(EPHEMERAL_BASE + 1, WarmPortSends - 1)>>)

SpecPorts == InitPorts /\ [][Next]_vars

(* initialize, then WarmRoutes calls add_route(2001:db8::1, 128, NULL, 1):   *)
(* one routing slot is left                                                  *)
WarmRoutes == 30

InitRoutes ==
    /\ AfterInitialize
    /\ routing_table = FilledTable(WarmRoutes)
    /\ tx_buffers = [i \in TxIdx |-> ZeroBuffer]
    /\ tcp_connections = [i \in ConnIdx |-> ZeroConn]
    /\ stats = ZeroStats
    /\ next_ephemeral_port = EPHEMERAL_BASE
    /\ last = Call("add_route", <<TEST_ADDR_REMOTE, 128, NULL, 1>>, RTNET_OK, <<>>)

SpecRoutes == InitRoutes /\ [][Next]_vars

(* RTNET_Initialize(TEST_ADDR_LOCAL, TEST_MAC_LOCAL) called when the 32-bit *)
(* clock reads 0xFFFFFFF0, 16 ms before it wraps to 0                      *)
LateClock == <<65535, 65520>>

InitClock ==
    /\ initialized = TRUE
    /\ local_ipv6 = TEST_ADDR_LOCAL
    /\ local_mac = TEST_MAC_LOCAL
    /\ rx_buffers = [i \in RxIdx |-> ZeroBuffer]
    /\ tx_buffers = [i \in TxIdx |-> ZeroBuffer]
    /\ tcp_connections = [i \in ConnIdx |-> ZeroConn]
    /\ routing_table =
         [i \in RouteIdx |->
             IF i = 0 THEN [LinkLocalTable[0] EXCEPT !.last_used_ms = LateClock]
                      ELSE ZeroRoute]
    /\ neighbor_cache = [i \in NeighborIdx |-> ZeroNeighbor]
    /\ mdns_cache = [i \in MdnsIdx |-> ZeroMdns]
    /\ stats = ZeroStats
    /\ next_ephemeral_port = EPHEMERAL_BASE
    /\ sequence_number = LateClock
    /\ now = LateClock
    /\ last = Call("initialize", <<TEST_ADDR_LOCAL, TEST_MAC_LOCAL>>, RTNET_OK, <<>>)
    /\ closed = {}
    /\ steps = 0
    /\ thread = NoThread

SpecClock == InitClock /\ [][Next]_vars

(* ------------------------------------------------------------------ *)
(* Critical section.  For each operation, the calls of                 *)
(* RTNET_CriticalSectionEnter / RTNET_CriticalSectionExit and the      *)
(* accesses to g_RTNET_Ctx on its path past the argument checks, in    *)
(* program order.  Only RTNET_GetStatistics calls the two hooks.       *)
(* ------------------------------------------------------------------ *)
CriticalEvents ==
    [op \in {"none", "tick", "initialize", "add_route", "get_statistics",
             "periodic_task", "process_rx", "udp_send", "tcp_connect",
             "tcp_send", "tcp_close", "mdns_query", "mdns_announce"} |->
        CASE op = "get_statistics" -> <<"enter", "read", "exit">>
          [] op \in {"none", "tick", "mdns_query"} -> <<>>
          [] OTHER -> <<"write">>]

(* nesting depth after the first k events, entered at depth 0 *)
DepthAfter(ev, k) ==
    Cardinality({i \in 1..k : ev[i] = "enter"})
      - Cardinality({i \in 1..k : ev[i] = "exit"})

(* ------------------------------------------------------------------ *)
(* RTNET_IPv6_PrefixMatch on its own.  The initial states hold a       *)
(* pending call for every pair of the addresses above and every value  *)
(* of the uint8_t length; the one action applies the function and      *)
(* records the bool it returns in last.out.                            *)
(* ------------------------------------------------------------------ *)
PrefixLens == 0..255

PrefixAddrs ==
    {ZeroAddr, LinkLocalPrefix, TEST_ADDR_LOCAL, TEST_ADDR_REMOTE,
     TEST_GATEWAY, TEST_NET, TEST_ADDR_OTHER}

InitPrefix ==
    /\ initialized = FALSE
    /\ local_ipv6 = ZeroAddr
    /\ local_mac = ZeroMac
    /\ rx_buffers = [i \in RxIdx |-> ZeroBuffer]
    /\ tx_buffers = [i \in TxIdx |-> ZeroBuffer]
    /\ tcp_connections = [i \in ConnIdx |-> ZeroConn]
    /\ routing_table = [i \in RouteIdx |-> ZeroRoute]
    /\ neighbor_cache = [i \in NeighborIdx |-> ZeroNeighbor]
    /\ mdns_cache = [i \in MdnsIdx |-> ZeroMdns]
    /\ stats = ZeroStats
    /\ next_ephemeral_port = 0
    /\ sequence_number = U32Zero
    /\ now = U32Zero
    /\ closed = {}
    /\ steps = 0
    /\ thread = NoThread
    /\ \E addr \in PrefixAddrs, prefix \in PrefixAddrs, prefix_len \in PrefixLens :
          last = Call("prefix_match", <<addr, prefix, prefix_len>>, RTNET_OK, <<>>)

ApplyPrefixMatch ==
    /\ last.op = "prefix_match"
    /\ last.out = <<>>
    /\ last' = [last EXCEPT
                  !.out = <<RTNET_IPv6_PrefixMatch(last.args[1], last.args[2],
                                                   last.args[3])>>]
    /\ UNCHANGED <<ctx, now, closed, steps, thread>>

NextPrefix == ApplyPrefixMatch

SpecPrefix == InitPrefix /\ [][NextPrefix]_vars

(* ------------------------------------------------------------------ *)
(* RTNET_ComputeChecksum on its own.  A buffer is a sequence of bytes. *)
(* ptr16[i] reads two bytes in the byte order of the build, so the     *)
(* byte order is an input (big = TRUE for a big-endian build).         *)
(* ------------------------------------------------------------------ *)
MaxChecksumLen == 6

ChecksumBytes == {0, 1, 255}

(* initial sums: none, 0xFFFF, and 0x1FFFF which needs two folds *)
ChecksumInitials == {0, 65535, 131071}

(* ptr16[i] *)
Word16(data, i, big) ==
    IF big THEN data[2 * i + 1] * 256 + data[2 * i + 2]
           ELSE data[2 * i + 1] + data[2 * i + 2] * 256

(* sum after the word loop has run from word i to the last word; the  *)
(* uint32_t sum is kept as two 16-bit limbs                            *)
RECURSIVE SumWordsFrom(_, _, _, _, _)
SumWordsFrom(data, i, words, sum, big) ==
    IF i = words
    THEN sum
    ELSE SumWordsFrom(data, i + 1, words, U32Add(sum, Word16(data, i, big)), big)

(* one pass of the folding loop instead of as many as needed *)
FoldOnce(sum) == U32(sum[2] + sum[1])

(* while ((sum >> 16) != 0) sum = (sum & 0xFFFF) + (sum >> 16) *)
RECURSIVE Fold(_)
Fold(sum) ==
    IF sum[1] # 0
    THEN Fold(U32(sum[2] + sum[1]))
    ELSE sum

(* data is a buffer here: the data == NULL branch, which returns 0,    *)
(* is left to the callers.  (uint16_t)(~sum) is the complement of the  *)
(* low limb.                                                           *)
RTNET_ComputeChecksum(data, length, initial, big) ==
    LET words == length \div 2
        sum == SumWordsFrom(data, 0, words, U32(initial), big)
        odd == IF length % 2 # 0
               THEN U32Add(sum, (data[length] * 256) % 65536)
               ELSE sum
    IN  65535 - Fold(odd)[2]

(* the buffer with the 16-bit value w stored at byte offset off *)
StoreWord16(data, off, w, big) ==
    [k \in DOMAIN data |->
        IF k = off + 1 THEN (IF big THEN w \div 256 ELSE w % 256)
        ELSE IF k = off + 2 THEN (IF big THEN w % 256 ELSE w \div 256)
        ELSE data[k]]

(* even offsets at which a 16-bit checksum field fits in n bytes *)
FieldOffsets(n) == {off \in 0..n : off % 2 = 0 /\ off + 2 <= n}

InitChecksum ==
    /\ initialized = FALSE
    /\ local_ipv6 = ZeroAddr
    /\ local_mac = ZeroMac
    /\ rx_buffers = [i \in RxIdx |-> ZeroBuffer]
    /\ tx_buffers = [i \in TxIdx |-> ZeroBuffer]
    /\ tcp_connections = [i \in ConnIdx |-> ZeroConn]
    /\ routing_table = [i \in RouteIdx |-> ZeroRoute]
    /\ neighbor_cache = [i \in NeighborIdx |-> ZeroNeighbor]
    /\ mdns_cache = [i \in MdnsIdx |-> ZeroMdns]
    /\ stats = ZeroStats
    /\ next_ephemeral_port = 0
    /\ sequence_number = U32Zero
    /\ now = U32Zero
    /\ closed = {}
    /\ steps = 0
    /\ thread = NoThread
    /\ \E n \in 0..MaxChecksumLen :
       \E data \in [1..n -> ChecksumBytes] :
       \E off \in (IF FieldOffsets(n) = {} THEN {NoIndex} ELSE FieldOffsets(n)) :
       \E initial \in ChecksumInitials, big \in BOOLEAN :
          last = Call("checksum", <<data, off, initial, big>>, RTNET_OK, <<>>)

(* checksum with the field zeroed, then again with the result stored   *)
(* in the field; a buffer too short for a field is summed once         *)
ApplyChecksum ==
    /\ last.op = "checksum"
    /\ last.out = <<>>
    /\ LET data == last.args[1]
           off == last.args[2]
           initial == last.args[3]
           big == last.args[4]
       IN  IF off = NoIndex
           THEN last' = [last EXCEPT
                           !.out = <<RTNET_ComputeChecksum(data, Len(data), initial, big)>>]
           ELSE LET zeroed == StoreWord16(data, off, 0, big)
                    c == RTNET_ComputeChecksum(zeroed, Len(zeroed), initial, big)
                    filled == StoreWord16(zeroed, off, c, big)
                IN  last' = [last EXCEPT
                               !.out = <<c, RTNET_ComputeChecksum(filled, Len(filled),
                                                                  initial, big)>>]
    /\ UNCHANGED <<ctx, now, closed, steps, thread>>

NextChecksum == ApplyChecksum

SpecChecksum == InitChecksum /\ [][NextChecksum]_vars

(* ------------------------------------------------------------------ *)
(* Neighbor cache: RTNET_ND_AddEntry and RTNET_ND_Lookup.  last.out    *)
(* holds the bool returned, then the slot written (add) or the MAC     *)
(* copied out (lookup).                                                *)
(* ------------------------------------------------------------------ *)
(* the slot RTNET_ND_AddEntry writes: the search loop from slot i on *)
RECURSIVE NdSlotFrom(_, _, _, _)
NdSlotFrom(cache, i, oldest_idx, oldest_time) ==
    IF i = RTNET_MAX_NEIGHBOR_CACHE
    THEN oldest_idx
    ELSE IF ~cache[i].valid
    THEN i
    ELSE IF U32Lt(cache[i].last_confirmed_ms, oldest_time)
    THEN NdSlotFrom(cache, i + 1, i, cache[i].last_confirmed_ms)
    ELSE NdSlotFrom(cache, i + 1, oldest_idx, oldest_time)

NdSlot(cache) == NdSlotFrom(cache, 0, 0, U32Max)

RTNET_ND_AddEntry(ipv6_addr, mac_addr) ==
    /\ UNCHANGED <<initialized, local_ipv6, local_mac, rx_buffers, tx_buffers,
                   tcp_connections, routing_table, mdns_cache, stats,
                   next_ephemeral_port, sequence_number, now, closed>>
    /\ IF ipv6_addr = NULL \/ mac_addr = NULL
       THEN /\ UNCHANGED neighbor_cache
            /\ last' = Call("nd_add", <<ipv6_addr, mac_addr>>, RTNET_OK, <<FALSE>>)
       ELSE LET idx == NdSlot(neighbor_cache)
            IN  /\ neighbor_cache' =
                     [neighbor_cache EXCEPT ![idx] =
                         [ipv6_addr |-> ipv6_addr,
                          mac_addr |-> mac_addr,
                          last_confirmed_ms |-> now,
                          valid |-> TRUE]]
                /\ last' = Call("nd_add", <<ipv6_addr, mac_addr>>, RTNET_OK,
                                <<TRUE, idx>>)

(* the first valid entry with this address, NoIndex when there is none *)
NdFirstHit(cache, ipv6_addr) ==
    IF \E i \in NeighborIdx : cache[i].valid /\ cache[i].ipv6_addr = ipv6_addr
    THEN CHOOSE i \in NeighborIdx :
            /\ cache[i].valid /\ cache[i].ipv6_addr = ipv6_addr
            /\ \A j \in NeighborIdx :
                  j < i => ~(cache[j].valid /\ cache[j].ipv6_addr = ipv6_addr)
    ELSE NoIndex

RTNET_ND_Lookup(ipv6_addr, mac_addr) ==
    /\ UNCHANGED <<initialized, local_ipv6, local_mac, rx_buffers, tx_buffers,
                   tcp_connections, routing_table, mdns_cache, stats,
                   next_ephemeral_port, sequence_number, now, closed>>
    /\ IF ipv6_addr = NULL \/ mac_addr = NULL
       THEN /\ UNCHANGED neighbor_cache
            /\ last' = Call("nd_lookup", <<ipv6_addr, mac_addr>>, RTNET_OK, <<FALSE>>)
       ELSE LET hit == NdFirstHit(neighbor_cache, ipv6_addr)
            IN  IF hit = NoIndex
                THEN /\ UNCHANGED neighbor_cache
                     /\ last' = Call("nd_lookup", <<ipv6_addr, mac_addr>>, RTNET_OK,
                                     <<FALSE>>)
                ELSE /\ neighbor_cache' =
                          [neighbor_cache EXCEPT ![hit].last_confirmed_ms = now]
                     /\ last' = Call("nd_lookup", <<ipv6_addr, mac_addr>>, RTNET_OK,
                                     <<TRUE, neighbor_cache[hit].mac_addr>>)

(* <<ipv6_addr, mac_addr>> *)
NdAddInputs ==
    { <<NULL, TEST_MAC_REMOTE>>, <<TEST_GATEWAY, NULL>>,
      <<TEST_GATEWAY, TEST_MAC_REMOTE>>, <<TEST_GATEWAY, TEST_MAC_LOCAL>>,
      <<TEST_ADDR_REMOTE, TEST_MAC_REMOTE>> }

(* <<ipv6_addr, mac_addr>> *)
NdLookupInputs ==
    { <<NULL, VALID_PTR>>, <<TEST_GATEWAY, NULL>>,
      <<TEST_GATEWAY, VALID_PTR>>, <<TEST_ADDR_REMOTE, VALID_PTR>>,
      <<TEST_ADDR_OTHER, VALID_PTR>> }

DoNdAdd == Step /\ \E a \in NdAddInputs : RTNET_ND_AddEntry(a[1], a[2])

DoNdLookup == Step /\ \E a \in NdLookupInputs : RTNET_ND_Lookup(a[1], a[2])

NextNd == DoNdAdd \/ DoNdLookup \/ DoTick

(* the neighbor cache after initialize *)
InitNd ==
    /\ AfterInitialize
    /\ routing_table = LinkLocalTable
    /\ tx_buffers = [i \in TxIdx |-> ZeroBuffer]
    /\ tcp_connections = [i \in ConnIdx |-> ZeroConn]
    /\ stats = ZeroStats
    /\ next_ephemeral_port = EPHEMERAL_BASE
    /\ last = Call("initialize", <<TEST_ADDR_LOCAL, TEST_MAC_LOCAL>>, RTNET_OK, <<>>)

SpecNd == InitNd /\ [][NextNd]_vars

(* ------------------------------------------------------------------ *)
(* A full neighbor cache: sixteen neighbors inserted one after the     *)
(* other, 10 ms apart (the step of the host clock), the first one      *)
(* 80 ms before the 32-bit clock wraps, so that slots 0..7 are stamped *)
(* before the wrap and slots 8..15 after it                            *)
(* ------------------------------------------------------------------ *)
NeighborAddrs ==
    <<"fe80::100", "fe80::101", "fe80::102", "fe80::103",
      "fe80::104", "fe80::105", "fe80::106", "fe80::107",
      "fe80::108", "fe80::109", "fe80::10a", "fe80::10b",
      "fe80::10c", "fe80::10d", "fe80::10e", "fe80::10f">>

(* 0xFFFFFFB0 *)
NdFirstStamp == <<65535, 65456>>

FullNeighborCache ==
    [i \in NeighborIdx |->
        [ipv6_addr |-> NeighborAddrs[i + 1],
         mac_addr |-> TEST_MAC_REMOTE,
         last_confirmed_ms |-> U32Add(NdFirstStamp, 10 * i),
         valid |-> TRUE]]

InitNdFull ==
    /\ initialized = TRUE
    /\ local_ipv6 = TEST_ADDR_LOCAL
    /\ local_mac = TEST_MAC_LOCAL
    /\ rx_buffers = [i \in RxIdx |-> ZeroBuffer]
    /\ tx_buffers = [i \in TxIdx |-> ZeroBuffer]
    /\ tcp_connections = [i \in ConnIdx |-> ZeroConn]
    /\ routing_table = LinkLocalTable
    /\ neighbor_cache = FullNeighborCache
    /\ mdns_cache = [i \in MdnsIdx |-> ZeroMdns]
    /\ stats = ZeroStats
    /\ next_ephemeral_port = EPHEMERAL_BASE
    /\ sequence_number = U32Zero
    /\ now = U32Add(NdFirstStamp, 10 * RTNET_MAX_NEIGHBOR_CACHE)
    /\ last = Call("nd_add", <<NeighborAddrs[RTNET_MAX_NEIGHBOR_CACHE], TEST_MAC_REMOTE>>,
                   RTNET_OK, <<TRUE, RTNET_MAX_NEIGHBOR_CACHE - 1>>)
    /\ closed = {}
    /\ steps = 0
    /\ thread = NoThread

SpecNdFull == InitNdFull /\ [][NextNd]_vars

(* ------------------------------------------------------------------ *)
(* The TX buffer pool: RTNET_AllocTxBuffer and RTNET_FreeBuffer, the   *)
(* two file-local functions of the pool, next to RTNET_UDP_Send, which *)
(* searches the pool with a loop of its own.  A buffer pointer is the  *)
(* index of the buffer, NoIndex for NULL.  offset and timestamp_ms are *)
(* written here and read nowhere; they are not part of the record.     *)
(* ------------------------------------------------------------------ *)
(* first pass of RTNET_AllocTxBuffer: first free buffer tagged qos_priority *)
FirstFreeTxTagged(pool, qos_priority) ==
    IF \E i \in TxIdx : ~pool[i].in_use /\ pool[i].qos_priority = qos_priority
    THEN CHOOSE i \in TxIdx :
            /\ ~pool[i].in_use /\ pool[i].qos_priority = qos_priority
            /\ \A j \in TxIdx :
                  j < i => ~(~pool[j].in_use /\ pool[j].qos_priority = qos_priority)
    ELSE NoIndex

RTNET_AllocTxBuffer(qos_priority) ==
    LET first == FirstFreeTxTagged(tx_buffers, qos_priority)
        selected == IF first # NoIndex THEN first ELSE FirstFreeTx(tx_buffers)
    IN  /\ UNCHANGED <<initialized, local_ipv6, local_mac, rx_buffers,
                       tcp_connections, routing_table, neighbor_cache, mdns_cache,
                       stats, next_ephemeral_port, sequence_number, now, closed>>
        /\ tx_buffers' =
              IF selected = NoIndex THEN tx_buffers
              ELSE [tx_buffers EXCEPT ![selected] =
                       [length |-> 0, qos_priority |-> qos_priority, in_use |-> TRUE]]
        /\ last' = Call("alloc_tx", <<qos_priority>>, RTNET_OK, <<selected>>)

RTNET_FreeBuffer(buffer) ==
    /\ UNCHANGED <<initialized, local_ipv6, local_mac, rx_buffers,
                   tcp_connections, routing_table, neighbor_cache, mdns_cache,
                   stats, next_ephemeral_port, sequence_number, now, closed>>
    /\ tx_buffers' =
          IF buffer = NoIndex THEN tx_buffers
          ELSE [tx_buffers EXCEPT ![buffer].in_use = FALSE]
    /\ last' = Call("free_buffer", <<buffer>>, RTNET_OK, <<>>)

AllocInputs == {RTNET_QOS_CRITICAL, RTNET_QOS_NORMAL}

FreeInputs == {NoIndex} \cup TxIdx

DoAllocTx == Step /\ \E q \in AllocInputs : RTNET_AllocTxBuffer(q)

DoFreeTx == Step /\ \E b \in FreeInputs : RTNET_FreeBuffer(b)

NextPool == DoAllocTx \/ DoFreeTx \/ DoUdpSend

(* the pool after buffer 0 was allocated for CRITICAL and buffer 1 for *)
(* NORMAL traffic and both were released again                         *)
ReleasedPool ==
    [i \in TxIdx |->
        IF i = 1 THEN [length |-> 0, qos_priority |-> RTNET_QOS_NORMAL, in_use |-> FALSE]
                 ELSE ZeroBuffer]

InitPool ==
    /\ AfterInitialize
    /\ routing_table = LinkLocalTable
    /\ tx_buffers = ReleasedPool
    /\ tcp_connections = [i \in ConnIdx |-> ZeroConn]
    /\ stats = ZeroStats
    /\ next_ephemeral_port = EPHEMERAL_BASE
    /\ last = Call("free_buffer", <<0>>, RTNET_OK, <<>>)

SpecPool == InitPool /\ [][NextPool]_vars

(* ------------------------------------------------------------------ *)
(* RTNET_UDP_Send in thread context, preempted by an interrupt handler *)
(* that calls RTNET_UDP_Send itself (the echo of the receive callback).*)
(* The handler runs from entry to return; the thread's call is cut     *)
(* where the handler can come in between its read of the in_use flags  *)
(* (the search loop, up to the break) and its write of in_use.  No     *)
(* line of RTNET_UDP_Send sits between the critical-section hooks.     *)
(* ------------------------------------------------------------------ *)
(* entry of the call up to the break of the search loop; a call that   *)
(* returns before it has found a buffer is the whole call              *)
ThreadUdpSendSearch(dest_addr, dest_port, src_port, payload, payload_len, qos_priority) ==
    LET args == <<dest_addr, dest_port, src_port, payload, payload_len, qos_priority>>
        buf == FirstFreeTx(tx_buffers)
    IN  IF \/ ~initialized
           \/ dest_addr = NULL \/ dest_port = 0 \/ payload = NULL \/ payload_len = 0
           \/ payload_len > RTNET_MTU_SIZE
           \/ RTNET_FindRoute(routing_table, dest_addr) = NoRoute
           \/ buf = NoIndex
        THEN /\ RTNET_UDP_Send(dest_addr, dest_port, src_port, payload, payload_len,
                               qos_priority)
             /\ thread' = [NoThread EXCEPT !.op = "udp_send", !.args = args,
                                           !.ret = last'.ret]
        ELSE /\ next_ephemeral_port' =
                   IF src_port = 0 THEN UdpPortAfter(next_ephemeral_port)
                                   ELSE next_ephemeral_port
             /\ thread' = [pc |-> "found", op |-> "udp_send", args |-> args,
                           slot |-> buf,
                           sport |-> IF src_port = 0 THEN next_ephemeral_port
                                                     ELSE src_port,
                           irq |-> {}, ret |-> RTNET_OK]
             /\ UNCHANGED <<initialized, local_ipv6, local_mac, rx_buffers,
                            tx_buffers, tcp_connections, routing_table,
                            neighbor_cache, mdns_cache, stats, sequence_number,
                            now, last, closed>>

(* the rest of the call: buf->in_use = true ... return RTNET_OK *)
ThreadUdpSendMark ==
    /\ tx_buffers' =
          [tx_buffers EXCEPT ![thread.slot] =
              [length |-> thread.args[5],
               qos_priority |-> thread.args[6],
               in_use |-> TRUE]]
    /\ stats' = Bump(stats, "tx_packets")
    /\ last' = Call("udp_send", thread.args, RTNET_OK, <<thread.sport>>)
    /\ thread' = [thread EXCEPT !.pc = "idle"]
    /\ UNCHANGED <<initialized, local_ipv6, local_mac, rx_buffers,
                   tcp_connections, routing_table, neighbor_cache, mdns_cache,
                   next_ephemeral_port, sequence_number, now, closed>>

DoThreadUdpSendSearch ==
    /\ thread.pc = "idle"
    /\ Advance
    /\ \E a \in UdpInputs : ThreadUdpSendSearch(a[1], a[2], a[3], a[4], a[5], a[6])

DoThreadUdpSendMark == thread.pc = "found" /\ Advance /\ ThreadUdpSendMark

(* the interrupt: a whole RTNET_UDP_Send, at any time *)
DoIrqUdpSend ==
    /\ Advance
    /\ \E a \in UdpInputs : RTNET_UDP_Send(a[1], a[2], a[3], a[4], a[5], a[6])
    /\ thread' =
          IF thread.pc = "idle" THEN thread
          ELSE [thread EXCEPT !.irq =
                   @ \cup {i \in TxIdx : ~tx_buffers[i].in_use /\ tx_buffers'[i].in_use}]

NextUdpIrq == DoThreadUdpSendSearch \/ DoThreadUdpSendMark \/ DoIrqUdpSend

SpecUdpIrq == InitNd /\ [][NextUdpIrq]_vars

(* ------------------------------------------------------------------ *)
(* RTNET_TCP_Send in thread context, preempted by the SysTick handler  *)
(* that calls RTNET_PeriodicTask.  The handler runs from entry to      *)
(* return; the thread's call is cut between its read of conn->in_use   *)
(* and its write of conn->last_activity_ms.                            *)
(* ------------------------------------------------------------------ *)
(* entry of the call up to the in_use check; a call the checks refuse  *)
(* is the whole call                                                   *)
ThreadTcpSendCheck(connection_id, data, length) ==
    IF \/ data = NULL \/ length = 0 \/ connection_id >= RTNET_MAX_TCP_CONNECTIONS
       \/ ~tcp_connections[connection_id].in_use
    THEN /\ RTNET_TCP_Send(connection_id, data, length)
         /\ thread' = [NoThread EXCEPT !.op = "tcp_send",
                                       !.args = <<connection_id, data, length>>,
                                       !.ret = last'.ret]
    ELSE /\ thread' = [NoThread EXCEPT !.pc = "checked", !.op = "tcp_send",
                                       !.args = <<connection_id, data, length>>,
                                       !.slot = connection_id]
         /\ UNCHANGED <<ctx, now, last, closed>>

(* the rest of the call: conn->last_activity_ms = now ... return RTNET_OK *)
ThreadTcpSendWrite ==
    /\ tcp_connections' =
          [tcp_connections EXCEPT ![thread.slot].last_activity_ms = now]
    /\ stats' = Bump(stats, "tx_packets")
    /\ last' = Call("tcp_send", thread.args, RTNET_OK, <<>>)
    /\ thread' = [thread EXCEPT !.pc = "idle"]
    /\ UNCHANGED <<initialized, local_ipv6, local_mac, rx_buffers, tx_buffers,
                   routing_table, neighbor_cache, mdns_cache,
                   next_ephemeral_port, sequence_number, now, closed>>

DoThreadTcpSendCheck ==
    /\ thread.pc = "idle"
    /\ Advance
    /\ \E a \in TcpSendInputs : ThreadTcpSendCheck(a[1], a[2], a[3])

DoThreadTcpSendWrite == thread.pc = "checked" /\ Advance /\ ThreadTcpSendWrite

(* the interrupt: a whole RTNET_PeriodicTask, at any time *)
DoIrqPeriodicTask ==
    /\ Advance
    /\ RTNET_PeriodicTask
    /\ thread' =
          IF thread.pc = "idle" THEN thread
          ELSE [thread EXCEPT !.irq =
                   @ \cup {i \in ConnIdx : /\ tcp_connections[i].in_use
                                           /\ ~tcp_connections'[i].in_use}]

NextTcpIrq ==
    DoThreadTcpSendCheck \/ DoThreadTcpSendWrite \/ DoIrqPeriodicTask \/ DoTick

(* established connections that have been idle for 10 ms more than    *)
(* the timeout: the next periodic task closes them                     *)
InitTcpIdle ==
    /\ initialized = TRUE
    /\ local_ipv6 = TEST_ADDR_LOCAL
    /\ local_mac = TEST_MAC_LOCAL
    /\ rx_buffers = [i \in RxIdx |-> ZeroBuffer]
    /\ tx_buffers = [i \in TxIdx |-> ZeroBuffer]
    /\ tcp_connections = ConnectedSlots(WarmConnections)
    /\ routing_table = LinkLocalTable
    /\ neighbor_cache = [i \in NeighborIdx |-> ZeroNeighbor]
    /\ mdns_cache = [i \in MdnsIdx |-> ZeroMdns]
    /\ stats = ZeroStats
    /\ next_ephemeral_port = EPHEMERAL_BASE + WarmConnections
    /\ sequence_number = U32Zero
    /\ now = U32(RTNET_TCP_TIMEOUT_MS + 10)
    /\ last = Call("tick", <<10>>, RTNET_OK, <<>>)
    /\ closed = {}
    /\ steps = 0
    /\ thread = NoThread

SpecTcpIrq == InitTcpIdle /\ [][NextTcpIrq]_vars

(* ------------------------------------------------------------------ *)
(* A stack that has received 2^32 - 1 frames since initialize: every   *)
(* RTNET_ProcessRxPacket call with a non-empty frame did rx_packets++  *)
(* ------------------------------------------------------------------ *)
InitCount ==
    /\ AfterInitialize
    /\ tx_buffers = [i \in TxIdx |-> ZeroBuffer]
    /\ tcp_connections = [i \in ConnIdx |-> ZeroConn]
    /\ routing_table = LinkLocalTable
    /\ stats = [ZeroStats EXCEPT !.rx_packets = U32Max]
    /\ next_ephemeral_port = EPHEMERAL_BASE
    /\ last = Call("process_rx", <<VALID_PTR, 62>>, RTNET_ERR_CHECKSUM, <<>>)

SpecCount == InitCount /\ [][Next]_vars

(* ------------------------------------------------------------------ *)
(* A caller that keeps retrying udp_send after initialize: the same    *)
(* datagram again and again, nothing else running                      *)
(* ------------------------------------------------------------------ *)
RetryInputs ==
    { <<TEST_GATEWAY, 5000, 1234, VALID_PTR, 1, RTNET_QOS_NORMAL>>,
      <<TEST_GATEWAY, 5000, 1234, VALID_PTR, RTNET_MTU_SIZE, RTNET_QOS_CRITICAL>> }

InitRetry ==
    /\ AfterInitialize
    /\ routing_table = LinkLocalTable
    /\ tx_buffers = [i \in TxIdx |-> ZeroBuffer]
    /\ tcp_connections = [i \in ConnIdx |-> ZeroConn]
    /\ stats = ZeroStats
    /\ next_ephemeral_port = EPHEMERAL_BASE
    /\ last = Call("initialize", <<TEST_ADDR_LOCAL, TEST_MAC_LOCAL>>, RTNET_OK, <<>>)

RetryUdpSend ==
    /\ stats.tx_dropped # U32(MaxDropped)
    /\ UNCHANGED <<steps, thread>>
    /\ \E a \in RetryInputs : RTNET_UDP_Send(a[1], a[2], a[3], a[4], a[5], a[6])

NextRetry == RetryUdpSend

SpecRetry == InitRetry /\ [][NextRetry]_vars /\ WF_vars(RetryUdpSend)

(* ------------------------------------------------------------------ *)
(* Properties.  Calls are atomic in this model, so in every state no   *)
(* call is in progress and last describes the call that just returned. *)
(* ------------------------------------------------------------------ *)

(* C1: whenever no udp_send call is in progress, every TX buffer has   *)
(* in_use = false; each udp_send that returns leaves no TX buffer      *)
(* in_use.                                                             *)
C1_NoTxBufferInUse == \A i \in TxIdx : ~tx_buffers[i].in_use

C2_ExhaustionIsPermanent ==
    [][((\A i \in TxIdx : tx_buffers[i].in_use)
          /\ ~(last'.op = "initialize" /\ last'.ret = RTNET_OK))
        => \A i \in TxIdx : tx_buffers'[i].in_use]_vars

(* the last call drew a port from the ephemeral counter *)
AutoAssigned ==
    \/ last.op = "udp_send" /\ last.args[3] = 0 /\ last.out # <<>>
    \/ last.op = "tcp_connect" /\ last.ret = RTNET_OK

(* the port it drew: UDP source port, or TCP local port *)
AssignedPort == IF last.op = "udp_send" THEN last.out[1] ELSE last.out[2]

(* C3: every auto-assigned port (UDP source port of a udp_send with    *)
(* sport = 0, or TCP local port) lies in 49152..65535, never 0, and    *)
(* the allocation following port 0xFFFF is 49152.                      *)
C3_EphemeralPortInRange ==
    AutoAssigned =>
        /\ AssignedPort \in EPHEMERAL_BASE..UINT16_MAX
        /\ AssignedPort = UINT16_MAX => next_ephemeral_port = EPHEMERAL_BASE

(* (local address, remote address, local port, remote port) of a slot *)
FourTuple(conn) ==
    <<conn.local_addr, conn.remote_addr, conn.local_port, conn.remote_port>>

(* C4: no two in_use TCP connection slots have the same (local         *)
(* address, remote address, local port, remote port), also after the   *)
(* ephemeral port counter has wrapped.                                 *)
C4_UniqueFourTuple ==
    \A i, j \in ConnIdx :
        (i # j /\ tcp_connections[i].in_use /\ tcp_connections[j].in_use)
            => FourTuple(tcp_connections[i]) # FourTuple(tcp_connections[j])

(* call c is tcp_send(h, data, length) with non-empty data *)
IsTcpSend(c, h) ==
    c.op = "tcp_send" /\ c.args[1] = h /\ c.args[2] # NULL /\ c.args[3] > 0

(* call c is tcp_close(h) *)
IsTcpClose(c, h) == c.op = "tcp_close" /\ c.args[1] = h

(* call c is a tcp_connect that returned handle h *)
ReturnedHandle(c, h) == c.op = "tcp_connect" /\ c.ret = RTNET_OK /\ c.out[1] = h

(* C5: after tcp_connect returns handle h, tcp_send(h, data) with      *)
(* non-empty data returns ok and tcp_close(h) returns ok, also after   *)
(* that send; once h is closed, and until a tcp_connect hands h out    *)
(* again, tcp_send(h, ...) and tcp_close(h) return the connection      *)
(* error.                                                              *)
C5_TcpLifecycle ==
    [][\A h \in ConnIdx :
          /\ (ReturnedHandle(last, h) /\ IsTcpSend(last', h))
                => last'.ret = RTNET_OK
          /\ ((ReturnedHandle(last, h) \/ (IsTcpSend(last, h) /\ last.ret = RTNET_OK))
                /\ IsTcpClose(last', h))
                => last'.ret = RTNET_OK
          /\ (h \in closed /\ (IsTcpSend(last', h) \/ IsTcpClose(last', h)))
                => last'.ret = RTNET_ERR_CONNECTION]_vars

(* a tcp_send on a handle closed before it was refused *)
C5_SendAfterCloseRefused ==
    /\ last.op = "tcp_send"
    /\ last.ret = RTNET_ERR_CONNECTION
    /\ last.args[1] \in closed

(* C6, as stated, for the handles of one initialization: slot h stays  *)
(* in_use until a tcp_close(h) completes; no other operation, in       *)
(* particular not the periodic task, releases it.  (A successful       *)
(* initialize, which retires every handle, is left aside here.)        *)
C6_OnlyCloseReleases ==
    [][\A h \in ConnIdx :
          (/\ tcp_connections[h].in_use
           /\ ~tcp_connections'[h].in_use
           /\ last'.op # "initialize")
            => (IsTcpClose(last', h) /\ last'.ret = RTNET_OK)]_vars

(* C6, amended: an in_use slot h is released only by a tcp_close(h)    *)
(* that returns ok, by a periodic_task call made when the connection   *)
(* has been idle for more than RTNET_TCP_TIMEOUT_MS, or by a           *)
(* successful initialize.                                              *)
C6_ReleasedByCloseTimeoutOrInit ==
    [][\A h \in ConnIdx :
          (tcp_connections[h].in_use /\ ~tcp_connections'[h].in_use)
            => \/ IsTcpClose(last', h) /\ last'.ret = RTNET_OK
               \/ /\ last'.op = "periodic_task"
                  /\ U32Gt(U32Sub(now, tcp_connections[h].last_activity_ms),
                           RTNET_TCP_TIMEOUT_MS)
               \/ last'.op = "initialize" /\ last'.ret = RTNET_OK]_vars

(* the periodic task has released a connection nobody closed *)
C6_TimedOutByPeriodicTask ==
    /\ last.op = "periodic_task"
    /\ \E h \in ConnIdx :
          /\ ~tcp_connections[h].in_use
          /\ tcp_connections[h].remote_port = 80
          /\ h \notin closed

(* some valid routing entry prefix-matches dest_addr *)
MatchingRoute(table, dest_addr) ==
    \E i \in RouteIdx :
        /\ table[i].valid
        /\ RTNET_IPv6_PrefixMatch(dest_addr, table[i].destination, table[i].prefix_len)

InUseSlots(conns) == {i \in ConnIdx : conns[i].in_use}

(* C7: never more than RTNET_MAX_TCP_CONNECTIONS slots are in_use; a   *)
(* valid tcp_connect on the initialized stack towards a destination    *)
(* with a matching route succeeds while fewer than the maximum are     *)
(* in_use, and returns no_buffer, leaving all slots unchanged, once    *)
(* the maximum is in_use.                                              *)
C7_ConnectLimit ==
    [][/\ Cardinality(InUseSlots(tcp_connections')) <= RTNET_MAX_TCP_CONNECTIONS
       /\ (/\ last'.op = "tcp_connect"
           /\ initialized
           /\ last'.args[1] # NULL /\ last'.args[2] # 0 /\ last'.args[3] # NULL
           /\ MatchingRoute(routing_table, last'.args[1]))
            => IF Cardinality(InUseSlots(tcp_connections)) < RTNET_MAX_TCP_CONNECTIONS
               THEN /\ last'.ret = RTNET_OK
                    /\ Cardinality(InUseSlots(tcp_connections'))
                         = Cardinality(InUseSlots(tcp_connections)) + 1
               ELSE /\ last'.ret = RTNET_ERR_NO_BUFFER
                    /\ tcp_connections' = tcp_connections]_vars

ValidRoutes(table) == {i \in RouteIdx : table[i].valid}

(* C8: a valid add_route returns ok, filling one slot, while at least  *)
(* one routing slot is invalid; add_route returns overflow exactly     *)
(* when all RTNET_MAX_ROUTING_ENTRIES slots are valid, and an overflow *)
(* leaves the routing table unchanged.                                 *)
C8_AddRouteOverflow ==
    [][last'.op = "add_route" =>
         LET wellFormed == last'.args[1] # NULL /\ last'.args[2] <= 128
             full == ValidRoutes(routing_table) = RouteIdx
         IN  /\ (wellFormed /\ ~full) =>
                   /\ last'.ret = RTNET_OK
                   /\ Cardinality(ValidRoutes(routing_table'))
                        = Cardinality(ValidRoutes(routing_table)) + 1
             /\ (last'.ret = RTNET_ERR_OVERFLOW) <=> (wellFormed /\ full)
             /\ (last'.ret = RTNET_ERR_OVERFLOW) => routing_table' = routing_table]_vars

(* an add_route was refused with all slots valid *)
C8_OverflowReturned ==
    /\ last.op = "add_route"
    /\ last.ret = RTNET_ERR_OVERFLOW
    /\ Cardinality(ValidRoutes(routing_table)) = RTNET_MAX_ROUTING_ENTRIES

(* destinations looked up *)
LookupAddrs ==
    {ZeroAddr, LinkLocalPrefix, TEST_ADDR_LOCAL, TEST_ADDR_REMOTE,
     TEST_GATEWAY, TEST_NET, TEST_ADDR_OTHER}

(* what add_route stored in an entry *)
RouteKey(e) == <<e.destination, e.prefix_len, e.next_hop, e.metric>>

(* C9: while an entry added by add_route(P, L, next_hop absent, m) is  *)
(* valid and no valid matching entry has a longer prefix, a lookup of  *)
(* any address under P/L returns exactly that entry, whatever L and m. *)
C9_DirectRouteLookup ==
    \A i \in RouteIdx, a \in LookupAddrs :
        (/\ routing_table[i].valid
         /\ routing_table[i].next_hop = ZeroAddr
         /\ RTNET_IPv6_PrefixMatch(a, routing_table[i].destination,
                                   routing_table[i].prefix_len)
         /\ ~\E j \in RouteIdx :
                /\ routing_table[j].valid
                /\ RTNET_IPv6_PrefixMatch(a, routing_table[j].destination,
                                          routing_table[j].prefix_len)
                /\ routing_table[j].prefix_len > routing_table[i].prefix_len)
          => LET r == RTNET_FindRoute(routing_table, a)
             IN  /\ r # NoRoute
                 /\ RouteKey(routing_table[r]) = RouteKey(routing_table[i])

(* C10: a successful initialize leaves all eight statistics counters   *)
(* 0, exactly one valid route (fe80::/10, no next hop, metric 1), no   *)
(* TCP slot in_use, no TX or RX buffer in_use, empty neighbor and mDNS *)
(* caches, next ephemeral port 49152 and initialized = true.           *)
C10_InitializePostcondition ==
    (last.op = "initialize" /\ last.ret = RTNET_OK) =>
        /\ Cardinality(DOMAIN stats) = 8
        /\ \A f \in DOMAIN stats : stats[f] = U32Zero
        /\ Cardinality(ValidRoutes(routing_table)) = 1
        /\ \A i \in ValidRoutes(routing_table) :
              RouteKey(routing_table[i]) = <<LinkLocalPrefix, 10, ZeroAddr, 1>>
        /\ \A i \in ConnIdx : ~tcp_connections[i].in_use
        /\ \A i \in TxIdx : ~tx_buffers[i].in_use
        /\ \A i \in RxIdx : ~rx_buffers[i].in_use
        /\ \A i \in NeighborIdx : ~neighbor_cache[i].valid
        /\ \A i \in MdnsIdx : ~mdns_cache[i].valid
        /\ next_ephemeral_port = EPHEMERAL_BASE
        /\ initialized = TRUE

(* the stack was initialized again after connections had been opened   *)
(* and closed                                                          *)
C10_ReinitializedAfterUse ==
    /\ last.op = "initialize"
    /\ last.ret = RTNET_OK
    /\ closed # {}

(* C11: the link-local route fe80::/10 (no next hop, metric 1) that    *)
(* initialize inserts is valid in every state of the initialized       *)
(* stack, whatever operations and periodic_task calls were made and    *)
(* whatever the clock reads.                                           *)
C11_LinkLocalRouteStays ==
    initialized =>
        \E i \in RouteIdx :
            /\ routing_table[i].valid
            /\ RouteKey(routing_table[i]) = <<LinkLocalPrefix, 10, ZeroAddr, 1>>

(* call c is a udp_send or tcp_connect whose route lookup succeeded:   *)
(* it got past the lookup, to a buffer or slot                         *)
LookupSucceeded(c) ==
    /\ c.op \in {"udp_send", "tcp_connect"}
    /\ c.ret \in {RTNET_OK, RTNET_ERR_NO_BUFFER}

(* C12: each successful lookup, by udp_send or tcp_connect, sets the   *)
(* last_used stamp of the winning route to the current time (so that a *)
(* route winning a lookup at least once in every 300 000 ms window is  *)
(* never found older than that by periodic_task).                      *)
C12_LookupStampsWinner ==
    [][LookupSucceeded(last') =>
         LET winner == RTNET_FindRoute(routing_table, last'.args[1])
         IN  /\ winner # NoRoute
             /\ routing_table'[winner].last_used_ms = now]_vars

(* C13: periodic_task invalidates a valid route exactly when           *)
(* (now - last_used), computed modulo 2^32, exceeds 300 000 ms; a      *)
(* route stamped at most 300 000 ms ago stays valid, also when the     *)
(* clock has wrapped since, and the entries are otherwise untouched.   *)
C13_RouteAgedExactlyPastHorizon ==
    [][last'.op = "periodic_task" =>
         \A i \in RouteIdx :
            /\ routing_table'[i].valid <=>
                  (/\ routing_table[i].valid
                   /\ ~U32Gt(U32Sub(now, routing_table[i].last_used_ms), ROUTE_AGE_MS))
            /\ RouteKey(routing_table'[i]) = RouteKey(routing_table[i])
            /\ routing_table'[i].last_used_ms = routing_table[i].last_used_ms]_vars

(* after the clock wrapped, periodic_task has invalidated the          *)
(* fe80::/10 route that was stamped before the wrap                    *)
C13_AgedAcrossClockWrap ==
    /\ last.op = "periodic_task"
    /\ now[1] < 65535
    /\ \E i \in RouteIdx :
          /\ ~routing_table[i].valid
          /\ routing_table[i].prefix_len = 10
          /\ routing_table[i].last_used_ms = LateClock

(* the arguments of a udp_send call are well-formed: destination and   *)
(* payload present, dport # 0, payload_len in 1..RTNET_MTU_SIZE        *)
UdpArgsValid(args) ==
    /\ args[1] # NULL
    /\ args[2] # 0
    /\ args[4] # NULL
    /\ args[5] \in 1..RTNET_MTU_SIZE

(* C14: with the stack initialized, a matching route and a free TX     *)
(* buffer, a udp_send with well-formed arguments returns ok, increases *)
(* tx_packets by exactly 1 and leaves tx_dropped, tx_errors and        *)
(* routing_errors unchanged.                                           *)
C14_UdpSendSucceeds ==
    [][(/\ last'.op = "udp_send"
        /\ initialized
        /\ UdpArgsValid(last'.args)
        /\ MatchingRoute(routing_table, last'.args[1])
        /\ \E i \in TxIdx : ~tx_buffers[i].in_use)
         => /\ last'.ret = RTNET_OK
            /\ stats'.tx_packets = U32Add(stats.tx_packets, 1)
            /\ stats'.tx_dropped = stats.tx_dropped
            /\ stats'.tx_errors = stats.tx_errors
            /\ stats'.routing_errors = stats.routing_errors]_vars

(* the condition under which RTNET_UDP_Send must refuse the call *)
UdpSendRejected(args) ==
    \/ ~initialized
    \/ args[1] = NULL \/ args[4] = NULL
    \/ args[2] = 0
    \/ args[5] = 0
    \/ args[5] > RTNET_MTU_SIZE

(* C15: udp_send returns invalid_param and leaves the whole context    *)
(* unchanged when the stack is uninitialized, the destination or the   *)
(* payload pointer is absent, dport = 0, payload_len = 0 or            *)
(* payload_len > RTNET_MTU_SIZE.                                       *)
C15_InvalidUdpSendChangesNothing ==
    [][(last'.op = "udp_send" /\ UdpSendRejected(last'.args))
         => /\ last'.ret = RTNET_ERR_INVALID_PARAM
            /\ UNCHANGED ctx]_vars

(* an oversized datagram with an automatic source port was refused on  *)
(* an initialized stack that has already sent                          *)
C15_OversizedRefused ==
    /\ last.op = "udp_send"
    /\ last.ret = RTNET_ERR_INVALID_PARAM
    /\ initialized
    /\ last.args[5] = RTNET_MTU_SIZE + 1
    /\ last.args[3] = 0
    /\ stats.tx_packets # U32Zero
(* the in_use flags of the TX pool *)
TxInUse(pool) == [i \in TxIdx |-> pool[i].in_use]

(* C16: a udp_send that finds no route returns no_route and increases  *)
(* routing_errors by exactly 1; one that finds a route but no free TX  *)
(* buffer returns no_buffer and increases tx_dropped by exactly 1; in  *)
(* both cases tx_packets is unchanged and no TX buffer changes its     *)
(* in_use flag.                                                        *)
C16_UdpSendFailureAccounting ==
    [][(last'.op = "udp_send" /\ ~UdpSendRejected(last'.args))
         => LET route == RTNET_FindRoute(routing_table, last'.args[1])
                full == \A i \in TxIdx : tx_buffers[i].in_use
            IN  /\ route = NoRoute
                     => /\ last'.ret = RTNET_ERR_NO_ROUTE
                        /\ stats'.routing_errors = U32Add(stats.routing_errors, 1)
                        /\ stats'.tx_dropped = stats.tx_dropped
                /\ (route # NoRoute /\ full)
                     => /\ last'.ret = RTNET_ERR_NO_BUFFER
                        /\ stats'.tx_dropped = U32Add(stats.tx_dropped, 1)
                        /\ stats'.routing_errors = stats.routing_errors
                /\ (route = NoRoute \/ full)
                     => /\ stats'.tx_packets = stats.tx_packets
                        /\ TxInUse(tx_buffers') = TxInUse(tx_buffers)]_vars

(* a send has just found the pool exhausted, after an earlier send     *)
(* found no route                                                      *)
C16_BothFailuresCounted ==
    /\ last.op = "udp_send"
    /\ last.ret = RTNET_ERR_NO_BUFFER
    /\ stats.tx_dropped = U32(1)
    /\ stats.routing_errors = U32(1)

(* C17: whenever process_rx returns the checksum error, checksum_errors *)
(* is increased by exactly 1 by that call.                              *)
C17_ChecksumErrorCounted ==
    [][(last'.op = "process_rx" /\ last'.ret = RTNET_ERR_CHECKSUM)
         => stats'.checksum_errors = U32Add(stats.checksum_errors, 1)]_vars

(* a + b modulo 2^32, both as limbs *)
U32Sum(a, b) == U32Add(<<(a[1] + b[1]) % 65536, a[2]>>, b[2])

(* by how much the counter grew in this step, modulo 2^32 *)
Grown(field) == U32Sub(stats'[field], stats[field])

(* C18: rx_packets equals the number of delivered frames plus          *)
(* rx_dropped plus rx_errors plus checksum_errors.  All five are 0     *)
(* after a successful initialize, so the equation holds in every state *)
(* exactly when every other step adds as much to rx_packets as to the  *)
(* right-hand side, a delivered frame being a process_rx call that     *)
(* returns ok.                                                         *)
C18_RxPacketsClassified ==
    [][IF last'.op = "initialize" /\ last'.ret = RTNET_OK
       THEN stats' = ZeroStats
       ELSE LET delivered ==
                    IF last'.op = "process_rx" /\ last'.ret = RTNET_OK
                    THEN U32(1) ELSE U32Zero
            IN  Grown("rx_packets") =
                    U32Sum(U32Sum(delivered, Grown("rx_dropped")),
                           U32Sum(Grown("rx_errors"), Grown("checksum_errors")))]_vars

(* a <= b as unsigned 32-bit values *)
U32Le(a, b) == a[1] < b[1] \/ (a[1] = b[1] /\ a[2] <= b[2])

(* C19: no statistics counter ever decreases between two consecutive   *)
(* states unless the step is a successful initialize, which resets all *)
(* of them to 0.                                                       *)
C19_CountersMonotonic ==
    [][IF last'.op = "initialize" /\ last'.ret = RTNET_OK
       THEN stats' = ZeroStats
       ELSE \A field \in DOMAIN stats : U32Le(stats[field], stats'[field])]_vars
(* C20: initialize with an absent local_ipv6 or an absent local_mac    *)
(* returns invalid_param and leaves the context unchanged: an already  *)
(* initialized stack keeps its tables, counters, connections and       *)
(* initialized flag.                                                   *)
C20_InitializeNullChangesNothing ==
    [][(/\ last'.op = "initialize"
        /\ (last'.args[1] = NULL \/ last'.args[2] = NULL))
         => /\ last'.ret = RTNET_ERR_INVALID_PARAM
            /\ UNCHANGED ctx]_vars

(* initialize was refused on a stack that is initialized, has open     *)
(* connections and has counted a send                                  *)
C20_RefusedOnRunningStack ==
    /\ last.op = "initialize"
    /\ last.ret = RTNET_ERR_INVALID_PARAM
    /\ initialized
    /\ \E i \in ConnIdx : tcp_connections[i].in_use
    /\ stats.tx_packets # U32Zero
(* C21: every write to shared context state by a public operation     *)
(* happens while the critical section is held (nesting depth > 0), and *)
(* every operation returns with the nesting depth it was entered with. *)
C21_WritesInsideCriticalSection ==
    [][LET ev == CriticalEvents[last'.op]
       IN  /\ ctx' # ctx
                => \A k \in DOMAIN ev :
                      ev[k] = "write" => DepthAfter(ev, k - 1) > 0
           /\ DepthAfter(ev, Len(ev)) = 0]_vars

(* the second half of C21 alone: the nesting depth is restored *)
C21_DepthRestored ==
    [][DepthAfter(CriticalEvents[last'.op], Len(CriticalEvents[last'.op])) = 0]_vars
(* C22: in every reachable state every valid routing entry has        *)
(* prefix_len <= 128; add_route with prefix_len > 128 or an absent     *)
(* destination returns invalid_param and leaves the routing table      *)
(* unchanged.                                                          *)
C22_PrefixLenBounded ==
    /\ [](\A i \in RouteIdx :
             routing_table[i].valid => routing_table[i].prefix_len <= 128)
    /\ [][(/\ last'.op = "add_route"
           /\ (last'.args[1] = NULL \/ last'.args[2] > 128))
            => /\ last'.ret = RTNET_ERR_INVALID_PARAM
               /\ routing_table' = routing_table]_vars

(* a /129 route was refused while a /128 route sits in the table *)
C22_LongPrefixRefused ==
    /\ last.op = "add_route"
    /\ last.ret = RTNET_ERR_INVALID_PARAM
    /\ last.args[1] # NULL
    /\ last.args[2] = 129
    /\ \E i \in RouteIdx :
          routing_table[i].valid /\ routing_table[i].prefix_len = 128

(* C23: a successful tcp_connect leaves the new connection in state    *)
(* SYN_SENT; ESTABLISHED is never the direct result of tcp_connect.    *)
C23_ConnectLeavesSynSent ==
    [][(last'.op = "tcp_connect" /\ last'.ret = RTNET_OK)
         => tcp_connections'[last'.out[1]].state = RTNET_TCP_SYN_SENT]_vars

(* the states in which a connection may send *)
SendableStates == {RTNET_TCP_ESTABLISHED, RTNET_TCP_CLOSE_WAIT}

C25_CloseGoesThroughFinWait ==
    [][/\ \A h \in ConnIdx :
            (/\ last'.op = "tcp_close"
             /\ last'.args[1] = h
             /\ tcp_connections[h].in_use
             /\ tcp_connections[h].state = RTNET_TCP_ESTABLISHED)
              => /\ tcp_connections'[h].state = RTNET_TCP_FIN_WAIT
                 /\ tcp_connections'[h].in_use
       /\ \A i \in ConnIdx :
            (tcp_connections[i].in_use /\ ~tcp_connections'[i].in_use)
              => tcp_connections'[i].state = RTNET_TCP_CLOSED]_vars

(* the second half of C25 alone *)
C25_ReleasedOnlyWhenClosed ==
    [][\A i \in ConnIdx :
          (tcp_connections[i].in_use /\ ~tcp_connections'[i].in_use)
            => tcp_connections'[i].state = RTNET_TCP_CLOSED]_vars

(* C26: each periodic_task invocation closes every in_use connection   *)
(* whose (now - last_activity) exceeds RTNET_TCP_TIMEOUT_MS: state     *)
(* becomes CLOSED, in_use becomes false and a statistics counter is    *)
(* updated; connections idle for at most 5000 ms are left untouched.   *)
C26_TimeoutClosesAndCounts ==
    [][last'.op = "periodic_task" =>
         /\ \A i \in ConnIdx :
               IF TcpTimedOut(tcp_connections[i], now)
               THEN /\ tcp_connections'[i].state = RTNET_TCP_CLOSED
                    /\ ~tcp_connections'[i].in_use
               ELSE tcp_connections'[i] = tcp_connections[i]
         /\ (\E i \in ConnIdx : TcpTimedOut(tcp_connections[i], now))
               => stats' # stats]_vars

(* C26 without the counter update *)
C26_TimeoutCloses ==
    [][last'.op = "periodic_task" =>
         \A i \in ConnIdx :
            IF TcpTimedOut(tcp_connections[i], now)
            THEN /\ tcp_connections'[i].state = RTNET_TCP_CLOSED
                 /\ ~tcp_connections'[i].in_use
            ELSE tcp_connections'[i] = tcp_connections[i]]_vars

(* C27: tcp_connect never returns an index whose slot is in_use or     *)
(* whose state is not CLOSED at the time of the call.                  *)
C27_HandleReusedOnlyWhenClosed ==
    [][(last'.op = "tcp_connect" /\ last'.ret = RTNET_OK)
         => /\ ~tcp_connections[last'.out[1]].in_use
            /\ tcp_connections[last'.out[1]].state = RTNET_TCP_CLOSED]_vars

(* an index below an open connection has been handed out: the search  *)
(* takes the first free slot, so this index was occupied before and    *)
(* has been released                                                   *)
C27_ClosedIndexReused ==
    /\ last.op = "tcp_connect"
    /\ last.ret = RTNET_OK
    /\ tcp_connections[last.out[1]].in_use
    /\ \E i \in ConnIdx : i > last.out[1] /\ tcp_connections[i].in_use

(* the valid cache records that carry exactly this name *)
CachedRecords(name) ==
    {i \in MdnsIdx : mdns_cache[i].valid /\ mdns_cache[i].service_name = name}

(* C28: mdns_query returns invalid_param when the name or the result   *)
(* pointer is absent or the name is empty; otherwise it returns the    *)
(* cached record when a valid record with exactly that name exists and *)
(* timeout when none exists; it changes no table and no counter.       *)
C28_QueryContract ==
    [][last'.op = "mdns_query" =>
         LET name == last'.args[1]
             result == last'.args[2]
         IN  /\ UNCHANGED ctx
             /\ IF name = NULL_NAME \/ result = NULL \/ name = ""
                THEN last'.ret = RTNET_ERR_INVALID_PARAM
                ELSE IF CachedRecords(name) # {}
                THEN /\ last'.ret = RTNET_OK
                     /\ \E i \in CachedRecords(name) : last'.out = <<mdns_cache[i]>>
                ELSE last'.ret = RTNET_ERR_TIMEOUT]_vars

(* C28 with the empty name left to the lookup *)
C28_QueryContractNonEmpty ==
    [][(last'.op = "mdns_query" /\ last'.args[1] # "") =>
         LET name == last'.args[1]
             result == last'.args[2]
         IN  /\ UNCHANGED ctx
             /\ IF name = NULL_NAME \/ result = NULL
                THEN last'.ret = RTNET_ERR_INVALID_PARAM
                ELSE IF CachedRecords(name) # {}
                THEN /\ last'.ret = RTNET_OK
                     /\ \E i \in CachedRecords(name) : last'.out = <<mdns_cache[i]>>
                ELSE last'.ret = RTNET_ERR_TIMEOUT]_vars

(* the valid entries of the table that prefix-match the address *)
Matching(table, a) ==
    {i \in RouteIdx :
        /\ table[i].valid
        /\ RTNET_IPv6_PrefixMatch(a, table[i].destination, table[i].prefix_len)}

(* what C29 asks of a lookup of address a in the table *)
BestMatchReturned(table, a) ==
    LET r == RTNET_FindRoute(table, a)
    IN  /\ r = NoRoute <=> Matching(table, a) = {}
        /\ r # NoRoute =>
             /\ r \in Matching(table, a)
             /\ \A j \in Matching(table, a) :
                   /\ table[j].prefix_len <= table[r].prefix_len
                   /\ table[j].prefix_len = table[r].prefix_len
                        => table[j].metric >= table[r].metric

(* C29: find(dst) returns no route iff no valid entry prefix-matches   *)
(* dst; otherwise it returns a valid matching entry such that no valid *)
(* matching entry has a longer prefix and none of the same prefix      *)
(* length has a lower metric.                                          *)
C29_FindRouteBestMatch ==
    \A a \in LookupAddrs : BestMatchReturned(routing_table, a)

(* C29 on tables without a valid ::/0 entry of metric 65535 *)
C29_BestMatchWithoutSentinelEntry ==
    (\A i \in RouteIdx :
        routing_table[i].valid =>
            ~(routing_table[i].prefix_len = 0 /\ routing_table[i].metric = UINT16_MAX))
      => \A a \in LookupAddrs : BestMatchReturned(routing_table, a)

(* bit k of a 16-byte address, bit 0 being the top bit of byte 0 *)
AddrBit(bytes, k) == (bytes[(k \div 8) + 1] \div (2 ^ (7 - (k % 8)))) % 2

(* the first n bits of the two addresses are equal *)
FirstBitsEqual(a, b, n) ==
    \A k \in 0..(n - 1) : AddrBit(Bytes(a), k) = AddrBit(Bytes(b), k)

(* C30: PrefixMatch(addr, prefix, n) is true exactly when n <= 128 and *)
(* the first n bits of addr and prefix are equal: n = 0 matches every  *)
(* address, n = 128 matches only the identical address, and for n not  *)
(* a multiple of 8 only the top (n mod 8) bits of byte n/8 are         *)
(* compared.                                                           *)
C30_PrefixMatchIsBitwise ==
    (last.op = "prefix_match" /\ last.out # <<>>) =>
        LET addr == last.args[1]
            prefix == last.args[2]
            n == last.args[3]
            matched == last.out[1]
        IN  /\ matched <=> (n <= 128 /\ FirstBitsEqual(addr, prefix, n))
            /\ n = 0 => matched
            /\ n = 128 => (matched <=> addr = prefix)

(* 2002::9 matches 2001:db8::1 over 14 bits: byte 1 differs (0x02 and  *)
(* 0x01) but not in its top 6 bits                                     *)
C30_PartialByteMatched ==
    /\ last.op = "prefix_match"
    /\ last.args = <<TEST_ADDR_OTHER, TEST_ADDR_REMOTE, 14>>
    /\ last.out = <<TRUE>>
(* C31: for every buffer, computing the Internet checksum with the    *)
(* checksum field zeroed, inserting the result into that field and     *)
(* recomputing over the buffer yields zero; the checksum of an empty   *)
(* buffer with zero initial sum is 0xFFFF.                             *)
C31_ChecksumRoundTrip ==
    (last.op = "checksum" /\ last.out # <<>>) =>
        /\ last.args[2] # NoIndex => last.out[2] = 0
        /\ (last.args[1] = <<>> /\ last.args[3] = 0) => last.out = <<65535>>

(* an odd-length buffer with a non-zero trailing byte, summed from an  *)
(* initial value that needs two folds, came back to zero               *)
C31_OddLengthRoundTrip ==
    /\ last.op = "checksum"
    /\ Len(last.args[1]) = 5
    /\ last.args[1][5] = 255
    /\ last.args[3] = 131071
    /\ Len(last.out) = 2
    /\ last.out[1] # 0
    /\ last.out[2] = 0
(* C32: after neighbor insertion of (ip, mac), a lookup of ip hits and *)
(* returns that mac, also when ip was already cached with a different  *)
(* MAC; in every reachable state at most one valid neighbor entry      *)
(* exists per IPv6 address.                                            *)
C32_NeighborInsertThenLookup ==
    /\ [](\A i, j \in NeighborIdx :
             (/\ neighbor_cache[i].valid
              /\ neighbor_cache[j].valid
              /\ neighbor_cache[i].ipv6_addr = neighbor_cache[j].ipv6_addr)
               => i = j)
    /\ [][(/\ last.op = "nd_add"
           /\ last.out[1] = TRUE
           /\ last'.op = "nd_lookup"
           /\ last'.args[1] = last.args[1]
           /\ last'.args[2] # NULL)
            => last'.out = <<TRUE, last.args[2]>>]_vars

(* C32 for addresses that are inserted once *)
C32_FirstInsertThenLookup ==
    [][(/\ last.op = "nd_add"
        /\ last.out[1] = TRUE
        /\ Cardinality({i \in NeighborIdx :
               /\ neighbor_cache[i].valid
               /\ neighbor_cache[i].ipv6_addr = last.args[1]}) = 1
        /\ last'.op = "nd_lookup"
        /\ last'.args[1] = last.args[1]
        /\ last'.args[2] # NULL)
         => last'.out = <<TRUE, last.args[2]>>]_vars
(* time elapsed since the entry was last confirmed, modulo 2^32 *)
NdAge(entry, t) == U32Sub(t, entry.last_confirmed_ms)

(* C33: neighbor insertion overwrites a valid entry only when all 16   *)
(* slots are valid, and then the overwritten entry is the one least    *)
(* recently confirmed in elapsed time (largest now - last_confirmed    *)
(* modulo 2^32), also when the 32-bit clock has wrapped between        *)
(* confirmations.                                                      *)
C33_EvictsLeastRecentlyConfirmed ==
    [][(last'.op = "nd_add" /\ last'.out[1] = TRUE)
         => LET idx == last'.out[2]
            IN  neighbor_cache[idx].valid
                  => /\ \A i \in NeighborIdx : neighbor_cache[i].valid
                     /\ \A j \in NeighborIdx :
                           U32Le(NdAge(neighbor_cache[j], now),
                                 NdAge(neighbor_cache[idx], now))]_vars

(* the first half of C33 alone *)
C33_OverwritesOnlyWhenFull ==
    [][(last'.op = "nd_add" /\ last'.out[1] = TRUE)
         => (neighbor_cache[last'.out[2]].valid
               => \A i \in NeighborIdx : neighbor_cache[i].valid)]_vars
(* the buffer the allocation rule designates for class q: the first    *)
(* free buffer tagged q if there is one, otherwise the first free one  *)
RuleBuffer(pool, q, b) ==
    LET free(i) == ~pool[i].in_use
        warm(i) == free(i) /\ pool[i].qos_priority = q
    IN  IF \E i \in TxIdx : warm(i)
        THEN warm(b) /\ \A j \in TxIdx : j < b => ~warm(j)
        ELSE free(b) /\ \A j \in TxIdx : j < b => ~free(j)

(* C34 (allocator): RTNET_AllocTxBuffer returns a buffer iff one is    *)
(* free; the buffer was free, is the one the rule designates, and is   *)
(* afterwards in_use with tag q and length 0; no other buffer changes. *)
C34_AllocatorFollowsRule ==
    [][last'.op = "alloc_tx"
         => LET q == last'.args[1]
                b == last'.out[1]
            IN  /\ (b # NoIndex) <=> (\E i \in TxIdx : ~tx_buffers[i].in_use)
                /\ b # NoIndex =>
                      /\ b \in TxIdx
                      /\ RuleBuffer(tx_buffers, q, b)
                      /\ tx_buffers'[b] =
                            [length |-> 0, qos_priority |-> q, in_use |-> TRUE]
                      /\ \A j \in TxIdx \ {b} : tx_buffers'[j] = tx_buffers[j]
                /\ b = NoIndex => tx_buffers' = tx_buffers]_vars

C34_WarmBufferPreferred ==
    /\ last.op = "alloc_tx"
    /\ last.out[1] = 1
    /\ ~tx_buffers[0].in_use
(* C35: when a udp_send in thread context is preempted by an          *)
(* interrupt-context udp_send, the two invocations never both obtain   *)
(* the same TX buffer: the buffer a returned thread call has marked    *)
(* in_use is none of those the interrupt handlers took during the call.*)
C35_NoSharedTxBuffer ==
    (thread.op = "udp_send" /\ thread.pc = "idle" /\ thread.ret = RTNET_OK
       /\ last.op = "udp_send" /\ last.args = thread.args /\ thread.slot # NoIndex)
        => thread.slot \notin thread.irq

(* a thread call preempted after its search, both calls ok *)
C35_PreemptedAfterSearch ==
    /\ thread.op = "udp_send" /\ thread.pc = "idle" /\ thread.slot # NoIndex
    /\ thread.irq # {}
(* C36: when periodic_task runs in interrupt context and preempts a   *)
(* thread-context tcp_send, a tcp_send that returns ok did so for a    *)
(* connection that is still in_use when it returns, and not for a slot *)
(* the periodic task closed during the call.                           *)
C36_SendOkOnlyOnLiveConnection ==
    (last.op = "tcp_send" /\ last.ret = RTNET_OK
       /\ thread.op = "tcp_send" /\ thread.pc = "idle" /\ thread.slot # NoIndex)
        => /\ tcp_connections[thread.slot].in_use
           /\ thread.slot \notin thread.irq

(* a thread tcp_send that ran from its check to its return with no     *)
(* periodic task in between returns ok on a connection in use          *)
C36_UnpreemptedSendOk ==
    /\ last.op = "tcp_send" /\ last.ret = RTNET_OK
    /\ thread.op = "tcp_send" /\ thread.pc = "idle" /\ thread.slot # NoIndex
    /\ thread.irq = {}
    /\ tcp_connections[thread.slot].in_use
(* tcp_connect has just placed a new connection in a slot that had    *)
(* been handed out and closed before: slots are filled from index 0,   *)
(* so a free slot below a slot in use is one whose connection was      *)
(* closed, and the handle returned for that connection is this index   *)
ReplacedStaleHandle(h) ==
    /\ last.op = "tcp_connect" /\ last.ret = RTNET_OK
    /\ last.out[1] = h
    /\ \E i \in ConnIdx : i > h /\ tcp_connections[i].in_use

(* C37: once the connection for which handle h was returned has been   *)
(* closed, tcp_send(h) and tcp_close(h) with that stale handle never   *)
(* succeed on, or change, the different connection a later tcp_connect *)
(* placed in the same slot.                                            *)
C37_StaleHandleRefused ==
    [][\A h \in ConnIdx :
         (ReplacedStaleHandle(h)
            /\ last'.op \in {"tcp_send", "tcp_close"}
            /\ last'.args[1] = h)
           => /\ last'.ret # RTNET_OK
              /\ tcp_connections' = tcp_connections]_vars

(* a handle whose connection is closed and whose slot no tcp_connect   *)
(* has taken since is refused by tcp_send                              *)
C37_ClosedHandleRefused ==
    [][\A h \in closed :
         (last'.op = "tcp_send" /\ last'.args[1] = h
            /\ last'.args[2] # NULL /\ last'.args[3] # 0)
           => /\ last'.ret = RTNET_ERR_CONNECTION
              /\ tcp_connections' = tcp_connections]_vars
(* C38: before the first successful initialize, no public operation   *)
(* (add_route, process_rx, udp_send, tcp_connect, tcp_send, tcp_close, *)
(* mdns_announce, periodic_task) changes the context: each either      *)
(* fails or leaves every table and counter as it was.                  *)
C38_NothingBeforeInitialize ==
    [][(~initialized
          /\ last'.op \in {"add_route", "process_rx", "udp_send", "tcp_connect",
                           "tcp_send", "tcp_close", "mdns_announce",
                           "periodic_task"})
         => (last'.ret # RTNET_OK \/ ctx' = ctx)]_vars

(* the operations that test the initialized flag or find every slot    *)
(* free leave the context as it was before initialize                  *)
C38_GuardedOperationsInert ==
    [][(~initialized
          /\ last'.op \in {"udp_send", "tcp_connect", "tcp_send", "tcp_close"})
         => (last'.ret # RTNET_OK /\ ctx' = ctx)]_vars

(* C39: a udp_send with sport = 0 that fails with no_route or         *)
(* no_buffer does not consume an ephemeral port: next_ephemeral_port   *)
(* is the same before and after the failed call.                       *)
C39_FailedSendKeepsPort ==
    [][(last'.op = "udp_send" /\ last'.args[3] = 0
          /\ last'.ret \in {RTNET_ERR_NO_ROUTE, RTNET_ERR_NO_BUFFER})
         => next_ephemeral_port' = next_ephemeral_port]_vars

(* a failed udp_send with a source port of the caller leaves the       *)
(* counter alone, whatever the failure                                 *)
C39_ExplicitPortKeepsCounter ==
    [][(last'.op = "udp_send" /\ last'.args[3] # 0 /\ last'.ret # RTNET_OK)
         => next_ephemeral_port' = next_ephemeral_port]_vars
====
